---------------------------- MODULE Spec2Model ----------------------------
(***************************************************************************)
(* Model of the bank-statement transaction parsing engine                  *)
(* (src/lib/parser): line normalisation, candidate detection, field        *)
(* extraction, confidence scoring and the parseTransactions orchestrator.  *)
(*                                                                         *)
(* Text is modelled character by character.  Lines are TLA+ strings, the   *)
(* regular expressions of the source are written as syntax trees that      *)
(* mirror the source expression node for node, and a backtracking matcher  *)
(* with the priority order of ECMAScript (leftmost start, greedy           *)
(* quantifiers, alternatives left to right) evaluates them.                *)
(*                                                                         *)
(* Money is held in hundredths (the amount shapes of the source admit      *)
(* either no fraction or exactly two fraction digits, so parseFloat's      *)
(* value times 100 is an exact integer).  Instants of time are held in     *)
(* whole days since 1970-01-01 (all instants compared by the source are    *)
(* midnights, so getTime() is 86400000 times that number and every         *)
(* comparison and sign of a difference is preserved).                      *)
(***************************************************************************)
EXTENDS Integers, Sequences, FiniteSets, TLC

(***************************************************************************)
(* Characters                                                              *)
(***************************************************************************)
Ch(s, i) == IF i >= 1 /\ i <= Len(s) THEN SubSeq(s, i, i) ELSE ""

UpperChars == "ABCDEFGHIJKLMNOPQRSTUVWXYZ"
LowerChars == "abcdefghijklmnopqrstuvwxyz"
DigitChars == "0123456789"

CharsOf(s) == { SubSeq(s, k, k) : k \in 1..Len(s) }

UpperSet == CharsOf(UpperChars)
LowerSet == CharsOf(LowerChars)
DigitSet == CharsOf(DigitChars)
SpaceSet == { " ", "\t", "\n", "\r", "\f" }
WordSet == UpperSet \cup LowerSet \cup DigitSet \cup { "_" }

LowerOf == [ c \in UpperSet |-> Ch(LowerChars, CHOOSE k \in 1..26 : Ch(UpperChars, k) = c) ]
UpperOf == [ c \in LowerSet |-> Ch(UpperChars, CHOOSE k \in 1..26 : Ch(LowerChars, k) = c) ]
DigitOf == [ c \in DigitSet |-> (CHOOSE k \in 1..10 : Ch(DigitChars, k) = c) - 1 ]

ToLowerCh(c) == IF c \in UpperSet THEN LowerOf[c] ELSE c
ToUpperCh(c) == IF c \in LowerSet THEN UpperOf[c] ELSE c

RECURSIVE MapChars(_, _, _)
MapChars(s, k, upper) ==
    IF k > Len(s) THEN ""
    ELSE (IF upper THEN ToUpperCh(Ch(s, k)) ELSE ToLowerCh(Ch(s, k))) \o MapChars(s, k + 1, upper)

\* String.prototype.toLowerCase / toUpperCase
toLowerCase(s) == MapChars(s, 1, FALSE)
toUpperCase(s) == MapChars(s, 1, TRUE)

(***************************************************************************)
(* Regular expressions.  A node is a record tagged by t:                   *)
(*   cls  [..]      ncls [^..]     lit  literal text     wb \b             *)
(*   bol  ^         eol  $         cat  concatenation    alt  a|b          *)
(*   rep  x{min,max} greedy (max = -1: unbounded)        grp  (x), group k *)
(***************************************************************************)
Cls(cs) == [t |-> "cls", cs |-> cs]
NCls(cs) == [t |-> "ncls", cs |-> cs]
Lit(str) == [t |-> "lit", s |-> str]
WB == [t |-> "wb"]
BOL == [t |-> "bol"]
EOL == [t |-> "eol"]
Cat(xs) == [t |-> "cat", xs |-> xs]
Alt(xs) == [t |-> "alt", xs |-> xs]
Rep(x, lo, hi) == [t |-> "rep", x |-> x, min |-> lo, max |-> hi]
Star(x) == Rep(x, 0, -1)
Plus(x) == Rep(x, 1, -1)
Opt(x) == Rep(x, 0, 1)
Grp(k, x) == [t |-> "grp", k |-> k, x |-> x]

D == Cls(DigitSet)          \* \d
S == Cls(SpaceSet)          \* \s

MaxGroups == 3
NoCaps == [k \in 1..MaxGroups |-> <<0, 0>>]

InClass(c, cs, ic) ==
    \/ c \in cs
    \/ ic /\ (ToLowerCh(c) \in cs \/ ToUpperCh(c) \in cs)

LitAt(str, ic, s, i) ==
    /\ i + Len(str) - 1 <= Len(s)
    /\ LET sub == SubSeq(s, i, i + Len(str) - 1)
       IN  IF ic THEN toLowerCase(sub) = toLowerCase(str) ELSE sub = str

IsWordBoundary(s, i) == (Ch(s, i - 1) \in WordSet) # (Ch(s, i) \in WordSet)

\* the character at position i is one the class node x matches
ClassAt(x, ic, s, i) == IF x.t = "cls" THEN InClass(Ch(s, i), x.cs, ic) ELSE ~InClass(Ch(s, i), x.cs, ic)

\* the first position in lo..hi that the class does not match, hi + 1 if it
\* matches them all
RECURSIVE FirstOutsideIn(_, _, _, _, _)
OutsideOrIn(left, x, ic, s, mid, hi) ==
    IF left <= mid THEN left ELSE FirstOutsideIn(x, ic, s, mid + 1, hi)

FirstOutsideIn(x, ic, s, lo, hi) ==
    IF lo > hi THEN lo
    ELSE IF lo = hi THEN (IF ClassAt(x, ic, s, lo) THEN hi + 1 ELSE lo)
    ELSE OutsideOrIn(FirstOutsideIn(x, ic, s, lo, (lo + hi) \div 2), x, ic, s, (lo + hi) \div 2, hi)

FirstOutside(x, ic, s, lo, hi) ==
    IF lo > hi THEN lo
    ELSE IF ~ClassAt(x, ic, s, lo) THEN lo
    ELSE FirstOutsideIn(x, ic, s, lo + 1, hi)

\* the last position a repetition n that starts at i may take
RepLimit(n, s, i) == IF n.max = -1 \/ i + n.max - 1 > Len(s) THEN Len(s) ELSE i + n.max - 1

\* a greedy repetition of a class that can take the characters before
\* position `stop`: the longest run first, down to n.min characters
ClassRep(n, stop, i, g) ==
    IF stop - i < n.min THEN << >>
    ELSE [k \in 1..(stop - i - n.min + 1) |-> [e |-> stop - k + 1, g |-> g]]

RECURSIVE MatchNode(_, _, _, _, _)
RECURSIVE MatchCat(_, _, _, _, _, _)
RECURSIVE ContinueCat(_, _, _, _, _, _)
RECURSIVE MatchAlt(_, _, _, _, _, _)
RECURSIVE MatchRep(_, _, _, _, _, _)
RECURSIVE ContinueRep(_, _, _, _, _, _, _)

\* Every way node n matches s from position i, best first: a sequence of
\* [e |-> position after the match, g |-> captures].
MatchNode(n, ic, s, i, g) ==
    LET here == << [e |-> i, g |-> g] >>
    IN  CASE n.t = "cls" ->
               IF i <= Len(s) /\ InClass(Ch(s, i), n.cs, ic)
               THEN << [e |-> i + 1, g |-> g] >> ELSE << >>
          [] n.t = "ncls" ->
               IF i <= Len(s) /\ ~InClass(Ch(s, i), n.cs, ic)
               THEN << [e |-> i + 1, g |-> g] >> ELSE << >>
          [] n.t = "lit" ->
               IF LitAt(n.s, ic, s, i)
               THEN << [e |-> i + Len(n.s), g |-> g] >> ELSE << >>
          [] n.t = "wb" -> IF IsWordBoundary(s, i) THEN here ELSE << >>
          [] n.t = "bol" -> IF i = 1 THEN here ELSE << >>
          [] n.t = "eol" -> IF i = Len(s) + 1 THEN here ELSE << >>
          [] n.t = "cat" -> MatchCat(n.xs, 1, ic, s, i, g)
          [] n.t = "alt" -> MatchAlt(n.xs, 1, ic, s, i, g)
          [] n.t = "rep" ->
               IF n.x.t \in {"cls", "ncls"}
               THEN ClassRep(n, FirstOutside(n.x, ic, s, i, RepLimit(n, s, i)), i, g)
               ELSE MatchRep(n, 0, ic, s, i, g)
          [] n.t = "grp" ->
               LET rs == MatchNode(n.x, ic, s, i, g)
               IN  [j \in 1..Len(rs) |->
                      [e |-> rs[j].e, g |-> [rs[j].g EXCEPT ![n.k] = <<i, rs[j].e>>]]]

MatchCat(xs, k, ic, s, i, g) ==
    IF k > Len(xs) THEN << [e |-> i, g |-> g] >>
    ELSE ContinueCat(MatchNode(xs[k], ic, s, i, g), 1, xs, k, ic, s)

ContinueCat(rs, j, xs, k, ic, s) ==
    IF j > Len(rs) THEN << >>
    ELSE MatchCat(xs, k + 1, ic, s, rs[j].e, rs[j].g) \o ContinueCat(rs, j + 1, xs, k, ic, s)

MatchAlt(xs, k, ic, s, i, g) ==
    IF k > Len(xs) THEN << >>
    ELSE MatchNode(xs[k], ic, s, i, g) \o MatchAlt(xs, k + 1, ic, s, i, g)

MatchRep(n, cnt, ic, s, i, g) ==
    LET more == IF n.max = -1 \/ cnt < n.max
                THEN ContinueRep(MatchNode(n.x, ic, s, i, g), 1, n, cnt, ic, s, i)
                ELSE << >>
        stop == IF cnt >= n.min THEN << [e |-> i, g |-> g] >> ELSE << >>
    IN  more \o stop

ContinueRep(rs, j, n, cnt, ic, s, i) ==
    IF j > Len(rs) THEN << >>
    ELSE (IF rs[j].e > i THEN MatchRep(n, cnt + 1, ic, s, rs[j].e, rs[j].g) ELSE << >>)
         \o ContinueRep(rs, j + 1, n, cnt, ic, s, i)

NoMatch == [found |-> FALSE, index |-> 0, e |-> 0, g |-> NoCaps]

\* RegExp.prototype.exec from position `from`: the leftmost match, or NoMatch.
\* index is the 1-based position of the first matched character (the
\* source's match.index is index - 1), e the position after the last.
RECURSIVE ExecIn(_, _, _, _, _)

\* rs: the ways the expression matches at `from`
ExecAt(rs, from) ==
    IF rs # << >>
    THEN [found |-> TRUE, index |-> from, e |-> rs[1].e, g |-> rs[1].g]
    ELSE NoMatch

\* the match found in the left part, else the leftmost one of lo..hi
LeftOrIn(left, re, ic, s, lo, hi) == IF left.found THEN left ELSE ExecIn(re, ic, s, lo, hi)

\* the leftmost match that starts in lo..hi
ExecIn(re, ic, s, lo, hi) ==
    IF lo > hi THEN NoMatch
    ELSE IF lo = hi THEN ExecAt(MatchNode(re, ic, s, lo, NoCaps), lo)
    ELSE LeftOrIn(ExecIn(re, ic, s, lo, (lo + hi) \div 2), re, ic, s, (lo + hi) \div 2 + 1, hi)

Exec(re, ic, s, from) == ExecIn(re, ic, s, from, Len(s) + 1)

\* String.prototype.match with a non-global expression
Match(re, ic, s) == Exec(re, ic, s, 1)

\* RegExp.prototype.test
Test(re, ic, s) == Exec(re, ic, s, 1).found

\* String.prototype.matchAll with a global expression: successive matches
RECURSIVE MatchAllFrom(_, _, _, _)

\* m and the matches after it (an empty match advances by one character)
MatchesAfter(m, re, ic, s) ==
    IF ~m.found THEN << >>
    ELSE << m >> \o MatchAllFrom(re, ic, s, IF m.e = m.index THEN m.e + 1 ELSE m.e)

MatchAllFrom(re, ic, s, from) == MatchesAfter(Exec(re, ic, s, from), re, ic, s)

MatchAll(re, ic, s) == MatchAllFrom(re, ic, s, 1)

\* match[0] and match[k]
Whole(s, m) == SubSeq(s, m.index, m.e - 1)
Group(s, m, k) == SubSeq(s, m.g[k][1], m.g[k][2] - 1)

\* String.prototype.replace(globalRegExp, text)
RECURSIVE ReplaceMatches(_, _, _, _, _)
ReplaceMatches(s, ms, k, from, repl) ==
    IF k > Len(ms) THEN SubSeq(s, from, Len(s))
    ELSE SubSeq(s, from, ms[k].index - 1) \o repl \o ReplaceMatches(s, ms, k + 1, ms[k].e, repl)

ReplaceAll(re, ic, s, repl) == ReplaceMatches(s, MatchAll(re, ic, s), 1, 1, repl)

\* String.prototype.indexOf (1-based; 0 when absent)
RECURSIVE IndexOfIn(_, _, _, _)

\* the position found in the left part, else the first one of lo..hi
FoundOrIn(found, s, sub, lo, hi) == IF found # 0 THEN found ELSE IndexOfIn(s, sub, lo, hi)

\* the first position in lo..hi at which sub occurs
IndexOfIn(s, sub, lo, hi) ==
    IF lo > hi THEN 0
    ELSE IF lo = hi THEN (IF SubSeq(s, lo, lo + Len(sub) - 1) = sub THEN lo ELSE 0)
    ELSE FoundOrIn(IndexOfIn(s, sub, lo, (lo + hi) \div 2), s, sub, (lo + hi) \div 2 + 1, hi)

IndexOfFrom(s, sub, i) == IndexOfIn(s, sub, i, Len(s) - Len(sub) + 1)

\* String.prototype.includes
Includes(s, sub) == IndexOfFrom(s, sub, 1) # 0

\* String.prototype.replace(text, replacement): the first occurrence only
ReplaceFirst(s, sub, repl) ==
    LET i == IndexOfFrom(s, sub, 1)
    IN  IF i = 0 THEN s
        ELSE SubSeq(s, 1, i - 1) \o repl \o SubSeq(s, i + Len(sub), Len(s))

\* String.prototype.trim
RECURSIVE TrimStart(_)
TrimStart(s) == IF Len(s) > 0 /\ Ch(s, 1) \in SpaceSet THEN TrimStart(SubSeq(s, 2, Len(s))) ELSE s
RECURSIVE TrimEnd(_)
TrimEnd(s) == IF Len(s) > 0 /\ Ch(s, Len(s)) \in SpaceSet THEN TrimEnd(SubSeq(s, 1, Len(s) - 1)) ELSE s
Trim(s) == TrimEnd(TrimStart(s))

\* String.prototype.split(text)
RECURSIVE SplitOn(_, _)
SplitOn(s, sep) ==
    LET i == IndexOfFrom(s, sep, 1)
    IN  IF i = 0 THEN << s >>
        ELSE << SubSeq(s, 1, i - 1) >> \o SplitOn(SubSeq(s, i + Len(sep), Len(s)), sep)

\* String.prototype.split(/\s+/)
RECURSIVE SplitPieces(_, _, _, _)
SplitPieces(s, ms, k, from) ==
    IF k > Len(ms) THEN << SubSeq(s, from, Len(s)) >>
    ELSE << SubSeq(s, from, ms[k].index - 1) >> \o SplitPieces(s, ms, k + 1, ms[k].e)

SplitSpaces(s) == IF s = "" THEN << "" >> ELSE SplitPieces(s, MatchAll(Plus(S), FALSE, s), 1, 1)

\* Array.prototype.join
RECURSIVE Join(_, _)
Join(xs, sep) ==
    IF Len(xs) = 0 THEN ""
    ELSE IF Len(xs) = 1 THEN xs[1]
    ELSE xs[1] \o sep \o Join(Tail(xs), sep)

\* parseInt(text, 10) of a run of digits
RECURSIVE ParseIntAcc(_, _, _)
ParseIntAcc(s, k, acc) ==
    IF k > Len(s) THEN acc ELSE ParseIntAcc(s, k + 1, acc * 10 + DigitOf[Ch(s, k)])
parseInt(s) == ParseIntAcc(s, 1, 0)

\* String.prototype.padStart(2, '0') of Number.prototype.toString
Pad2(n) == IF n < 10 THEN "0" \o ToString(n) ELSE ToString(n)

(***************************************************************************)
(* Optional values: null / undefined of the source                         *)
(***************************************************************************)
None == [some |-> FALSE]
Some(v) == [some |-> TRUE, v |-> v]

(***************************************************************************)
(* Calendar.  A day is [year, month, day]; DayNumber counts days since     *)
(* 1970-01-01 and normalises overflowing months and days as the Date       *)
(* constructor does.                                                       *)
(***************************************************************************)
IsLeap(y) == (y % 4 = 0 /\ y % 100 # 0) \/ y % 400 = 0

DaysInMonth(y, m) ==
    CASE m \in {1, 3, 5, 7, 8, 10, 12} -> 31
      [] m \in {4, 6, 9, 11} -> 30
      [] OTHER -> IF IsLeap(y) THEN 29 ELSE 28

RECURSIVE DaysBeforeMonth(_, _)
DaysBeforeMonth(y, m) == IF m <= 1 THEN 0 ELSE DaysInMonth(y, m - 1) + DaysBeforeMonth(y, m - 1)

\* days from 1970-01-01 to January 1st of year y
DaysBeforeYear(y) ==
    LET p == y - 1
    IN  365 * (y - 1970) + (p \div 4 - 1969 \div 4) - (p \div 100 - 1969 \div 100)
        + (p \div 400 - 1969 \div 400)

\* new Date(year, monthIndex, day): monthIndex is zero-based and may overflow
DayNumber(year, monthIndex, day) ==
    LET y == year + monthIndex \div 12
        m == (monthIndex % 12) + 1
    IN  DaysBeforeYear(y) + DaysBeforeMonth(y, m) + day - 1

RECURSIVE YearOfDay(_, _)
YearOfDay(n, y) == IF DaysBeforeYear(y + 1) > n THEN y ELSE YearOfDay(n, y + 1)
RECURSIVE MonthOfDay(_, _, _)
MonthOfDay(n, y, m) == IF DaysBeforeYear(y) + DaysBeforeMonth(y, m + 1) > n THEN m ELSE MonthOfDay(n, y, m + 1)

\* getFullYear / getMonth + 1 / getDate of a day number (n >= 0)
CivilOfDay(n) ==
    LET y == YearOfDay(n, 1970)
        m == MonthOfDay(n, y, 1)
    IN  [year |-> y, month |-> m, day |-> n - DaysBeforeYear(y) - DaysBeforeMonth(y, m) + 1]

(***************************************************************************)
(* Layer 3a: date extractor                                                *)
(***************************************************************************)
DateSep == Cls({"/", "-", "."})

MonthAbbrev ==
    Alt(<< Lit("Jan"), Lit("Feb"), Lit("Mar"), Lit("Apr"), Lit("May"), Lit("Jun"),
           Lit("Jul"), Lit("Aug"), Lit("Sep"), Lit("Oct"), Lit("Nov"), Lit("Dec") >>)

DATE_EXTRACTION_PATTERNS ==
    << [format |-> "YYYY-MM-DD", ic |-> FALSE,      \* /\b(\d{4})-(\d{2})-(\d{2})\b/
        pattern |-> Cat(<< WB, Grp(1, Rep(D, 4, 4)), Lit("-"), Grp(2, Rep(D, 2, 2)),
                           Lit("-"), Grp(3, Rep(D, 2, 2)), WB >>)],
       [format |-> "DD/MM/YYYY", ic |-> FALSE,      \* /\b(\d{1,2})[\/\-\.](\d{1,2})[\/\-\.](\d{4})\b/
        pattern |-> Cat(<< WB, Grp(1, Rep(D, 1, 2)), DateSep, Grp(2, Rep(D, 1, 2)),
                           DateSep, Grp(3, Rep(D, 4, 4)), WB >>)],
       [format |-> "DD MMM YYYY", ic |-> TRUE,      \* /\b(\d{1,2})[\s\-](Jan|..|Dec)[a-z]*[\s\-]*(\d{4})\b/i
        pattern |-> Cat(<< WB, Grp(1, Rep(D, 1, 2)), Cls(SpaceSet \cup {"-"}), Grp(2, MonthAbbrev),
                           Star(Cls(LowerSet)), Star(Cls(SpaceSet \cup {"-"})),
                           Grp(3, Rep(D, 4, 4)), WB >>)],
       [format |-> "MMM DD YYYY", ic |-> TRUE,      \* /\b(Jan|..|Dec)[a-z]*\s+(\d{1,2}),?\s+(\d{4})\b/i
        pattern |-> Cat(<< WB, Grp(1, MonthAbbrev), Star(Cls(LowerSet)), Plus(S),
                           Grp(2, Rep(D, 1, 2)), Opt(Lit(",")), Plus(S),
                           Grp(3, Rep(D, 4, 4)), WB >>)],
       [format |-> "DD/MM/YY", ic |-> FALSE,        \* /\b(\d{1,2})[\/\-\.](\d{1,2})[\/\-\.](\d{2})\b/
        pattern |-> Cat(<< WB, Grp(1, Rep(D, 1, 2)), DateSep, Grp(2, Rep(D, 1, 2)),
                           DateSep, Grp(3, Rep(D, 2, 2)), WB >>)] >>

MONTH_NAMES ==
    [ name \in { "jan", "january", "feb", "february", "mar", "march", "apr", "april", "may",
                 "jun", "june", "jul", "july", "aug", "august", "sep", "sept", "september",
                 "oct", "october", "nov", "november", "dec", "december" } |->
        CASE name \in {"jan", "january"} -> 1
          [] name \in {"feb", "february"} -> 2
          [] name \in {"mar", "march"} -> 3
          [] name \in {"apr", "april"} -> 4
          [] name = "may" -> 5
          [] name \in {"jun", "june"} -> 6
          [] name \in {"jul", "july"} -> 7
          [] name \in {"aug", "august"} -> 8
          [] name \in {"sep", "sept", "september"} -> 9
          [] name \in {"oct", "october"} -> 10
          [] name \in {"nov", "november"} -> 11
          [] OTHER -> 12 ]

\* MONTH_NAMES[normalized] || null
parseMonthName(monthStr) ==
    LET lowered == toLowerCase(monthStr)
    IN  IF lowered \in DOMAIN MONTH_NAMES THEN Some(MONTH_NAMES[lowered]) ELSE None

\* the heuristic without its tests against 12: the preference alone decides
DayMonthByPreference(part1, part2, preferDDMM) ==
    IF preferDDMM THEN [day |-> part1, month |-> part2]
    ELSE [day |-> part2, month |-> part1]

\* the day/month heuristic shared by the two numeric parsers
DayMonthOf(part1, part2, preferDDMM) ==
    IF part1 > 12 THEN [day |-> part1, month |-> part2]
    ELSE IF part2 > 12 THEN [day |-> part2, month |-> part1]
    ELSE IF preferDDMM THEN [day |-> part1, month |-> part2]
    ELSE [day |-> part2, month |-> part1]

\* every 2-digit year taken for a year of the 2000s
AlwaysTwoThousands(yearShort) == 2000 + yearShort

\* const year = yearShort < 50 ? 2000 + yearShort : 1900 + yearShort
FullYear(yearShort) == IF yearShort < 50 THEN 2000 + yearShort ELSE 1900 + yearShort

\* the parser of each pattern: [year, month, day] or None
DateParser(format, s, m, preferDDMM) ==
    CASE format = "YYYY-MM-DD" ->
           [year |-> parseInt(Group(s, m, 1)), month |-> parseInt(Group(s, m, 2)),
            day |-> parseInt(Group(s, m, 3))]
      [] format = "DD/MM/YYYY" ->
           LET dm == DayMonthOf(parseInt(Group(s, m, 1)), parseInt(Group(s, m, 2)), preferDDMM)
           IN  [year |-> parseInt(Group(s, m, 3)), month |-> dm.month, day |-> dm.day]
      [] format = "DD MMM YYYY" ->
           LET month == parseMonthName(Group(s, m, 2))
           IN  IF ~month.some THEN None
               ELSE [year |-> parseInt(Group(s, m, 3)), month |-> month.v,
                     day |-> parseInt(Group(s, m, 1))]
      [] format = "MMM DD YYYY" ->
           LET month == parseMonthName(Group(s, m, 1))
           IN  IF ~month.some THEN None
               ELSE [year |-> parseInt(Group(s, m, 3)), month |-> month.v,
                     day |-> parseInt(Group(s, m, 2))]
      [] format = "DD/MM/YY" ->
           LET yearShort == parseInt(Group(s, m, 3))
               year == FullYear(yearShort)
               dm == DayMonthOf(parseInt(Group(s, m, 1)), parseInt(Group(s, m, 2)), preferDDMM)
           IN  [year |-> year, month |-> dm.month, day |-> dm.day]

MinYear == 1990

\* a date valid by the bounds alone, without the calendar construction
InBoundsDate(year, month, day, nowDay) ==
    IF year < MinYear \/ year > nowDay.year + 1 THEN FALSE
    ELSE IF month < 1 \/ month > 12 THEN FALSE
    ELSE IF day < 1 \/ day > 31 THEN FALSE
    ELSE TRUE

\* `today` is the day new Date() falls on: [year, month, day]
isValidDate(year, month, day, nowDay) ==
    IF year < MinYear \/ year > nowDay.year + 1 THEN FALSE
    ELSE IF month < 1 \/ month > 12 THEN FALSE
    ELSE IF day < 1 \/ day > 31 THEN FALSE
    ELSE CivilOfDay(DayNumber(year, month - 1, day)) = [year |-> year, month |-> month, day |-> day]

isDateInReasonableRange(year, month, day, nowDay) ==
    LET date == DayNumber(year, month - 1, day)
        oneYearAgo == DayNumber(nowDay.year - 1, nowDay.month - 1, nowDay.day)
        oneMonthFuture == DayNumber(nowDay.year, nowDay.month, nowDay.day)
    IN  date >= oneYearAgo /\ date <= oneMonthFuture

formatToISO(year, month, day) == ToString(year) \o "-" \o Pad2(month) \o "-" \o Pad2(day)

Min(a, b) == IF a < b THEN a ELSE b

\* confidence of a date: 100 for ISO, otherwise 70; +20 for a named month; +10
\* for a date in the reasonable range; at most 100
DateConfidence(format, inRange) ==
    Min((IF format = "YYYY-MM-DD" THEN 100 ELSE 70)
        + (IF Includes(format, "MMM") THEN 20 ELSE 0)
        + (IF inRange THEN 10 ELSE 0), 100)

RECURSIVE ExtractDateFrom(_, _, _, _)

\* a loop body that gives up at the first pattern whose date is not valid
DateOfParsedOrNone(k, p, m, ymd, line, preferDDMM, nowDay) ==
    IF ymd = None THEN ExtractDateFrom(k + 1, line, preferDDMM, nowDay)
    ELSE IF ~isValidDate(ymd.year, ymd.month, ymd.day, nowDay) THEN None
    ELSE [value |-> formatToISO(ymd.year, ymd.month, ymd.day),
          original |-> Whole(line, m),
          format |-> p.format,
          confidence |->
              DateConfidence(p.format,
                             isDateInReasonableRange(ymd.year, ymd.month, ymd.day, nowDay))]

\* the body of the loop over the patterns, for pattern k = p with match m and
\* parser result ymd: `continue` is the extraction from pattern k + 1
DateOfParsed(k, p, m, ymd, line, preferDDMM, nowDay) ==
    IF ymd = None THEN ExtractDateFrom(k + 1, line, preferDDMM, nowDay)
    ELSE IF ~isValidDate(ymd.year, ymd.month, ymd.day, nowDay)
    THEN ExtractDateFrom(k + 1, line, preferDDMM, nowDay)
    ELSE [value |-> formatToISO(ymd.year, ymd.month, ymd.day),
          original |-> Whole(line, m),
          format |-> p.format,
          confidence |->
              DateConfidence(p.format,
                             isDateInReasonableRange(ymd.year, ymd.month, ymd.day, nowDay))]

DateOfMatch(k, p, m, line, preferDDMM, nowDay) ==
    IF ~m.found THEN ExtractDateFrom(k + 1, line, preferDDMM, nowDay)
    ELSE DateOfParsed(k, p, m, DateParser(p.format, line, m, preferDDMM), line, preferDDMM, nowDay)

DateOfPattern(k, p, line, preferDDMM, nowDay) ==
    DateOfMatch(k, p, Match(p.pattern, p.ic, line), line, preferDDMM, nowDay)

ExtractDateFrom(k, line, preferDDMM, nowDay) ==
    IF k > Len(DATE_EXTRACTION_PATTERNS) THEN None
    ELSE DateOfPattern(k, DATE_EXTRACTION_PATTERNS[k], line, preferDDMM, nowDay)

\* extractDate(line, preferDDMM): ExtractedDate or None
extractDate(line, preferDDMM, nowDay) == ExtractDateFrom(1, line, preferDDMM, nowDay)

(***************************************************************************)
(* Layer 3b: amount extractor                                              *)
(***************************************************************************)
\* [$...]: the currency symbols; only the ASCII one occurs in modelled text
Currency == Cls({"$"})
Fraction == Cat(<< Lit("."), Rep(D, 2, 2) >>)                              \* \.\d{2}
Thousands == Cat(<< Lit(","), Rep(D, 3, 3) >>)                             \* ,\d{3}
Numeral == Cat(<< Rep(D, 1, 3), Star(Thousands), Opt(Fraction) >>)         \* \d{1,3}(?:,\d{3})*(?:\.\d{2})?

\* isDebit: Some(TRUE), Some(FALSE), or None for the source's null
AMOUNT_EXTRACTION_PATTERNS ==
    << [isDebit |-> Some(TRUE), confidence |-> 95, ic |-> FALSE,       \* /\((?:[$..])?\s*(NUM)\)/g
        pattern |-> Cat(<< Lit("("), Opt(Currency), Star(S), Grp(1, Numeral), Lit(")") >>)],
       [isDebit |-> Some(TRUE), confidence |-> 95, ic |-> FALSE,       \* /-\s*(?:[$..])?\s*(NUM)/g
        pattern |-> Cat(<< Lit("-"), Star(S), Opt(Currency), Star(S), Grp(1, Numeral) >>)],
       [isDebit |-> Some(TRUE), confidence |-> 100, ic |-> TRUE,       \* /(NUM)\s+DR\b/gi
        pattern |-> Cat(<< Grp(1, Numeral), Plus(S), Lit("DR"), WB >>)],
       [isDebit |-> Some(FALSE), confidence |-> 100, ic |-> TRUE,      \* /(NUM)\s+CR\b/gi
        pattern |-> Cat(<< Grp(1, Numeral), Plus(S), Lit("CR"), WB >>)],
       [isDebit |-> None, confidence |-> 70, ic |-> FALSE,             \* /(?:[$..])\s*(NUM)/g
        pattern |-> Cat(<< Currency, Star(S), Grp(1, Numeral) >>)],
       [isDebit |-> None, confidence |-> 60, ic |-> FALSE,             \* /\b(\d{1,3}(?:,\d{3})+(?:\.\d{2})?)\b/g
        pattern |-> Cat(<< WB, Grp(1, Cat(<< Rep(D, 1, 3), Plus(Thousands), Opt(Fraction) >>)), WB >>)],
       [isDebit |-> None, confidence |-> 55, ic |-> FALSE,             \* /\b(\d{3,}(?:\.\d{2})?)\b/g
        pattern |-> Cat(<< WB, Grp(1, Cat(<< Rep(D, 3, -1), Opt(Fraction) >>)), WB >>)] >>

\* amountStr.replace(/,/g, '')
RemoveCommas(str) == ReplaceAll(Lit(","), FALSE, str, "")

\* parseFloat of digits with an optional two-digit fraction, in hundredths
ParseHundredths(cleaned) ==
    LET dot == IndexOfFrom(cleaned, ".", 1)
    IN  IF dot = 0 THEN parseInt(cleaned) * 100
        ELSE parseInt(SubSeq(cleaned, 1, dot - 1)) * 100 + parseInt(SubSeq(cleaned, dot + 1, Len(cleaned)))

parseAmount(amountStr) == ParseHundredths(RemoveCommas(amountStr))

MaxAmount == 1000000000       \* 10000000 in hundredths

\* the object pushed for a match with the trailing Cr/Dr of the line left aside
AmountWithoutMarker(p, match, value, line, endsWithCr, endsWithDr) ==
    IF value <= 0 \/ value > MaxAmount THEN << >>
    ELSE << [value |-> value,
             original |-> Trim(Whole(line, match)),
             isDebit |-> IF p.isDebit # None THEN p.isDebit.v ELSE FALSE,
             isCredit |-> p.isDebit = Some(FALSE),
             confidence |-> p.confidence,
             position |-> match.index - 1] >>

\* the object pushed onto `results` for one match of pattern p, if its value
\* is positive and below the ceiling
AmountOfMatch(p, match, value, line, endsWithCr, endsWithDr) ==
    IF value <= 0 \/ value > MaxAmount THEN << >>
    ELSE << [value |-> value,
             original |-> Trim(Whole(line, match)),
             isDebit |-> IF p.isDebit # None THEN p.isDebit.v
                         ELSE IF endsWithCr THEN FALSE
                         ELSE endsWithDr,             \* isDebit ?? false
             isCredit |-> IF p.isDebit = None /\ endsWithCr THEN TRUE
                          ELSE IF p.isDebit = None /\ endsWithDr THEN FALSE
                          ELSE p.isDebit = Some(FALSE),
             confidence |-> p.confidence,
             position |-> match.index - 1] >>

\* the matches of one pattern
RECURSIVE AmountsOfMatches(_, _, _, _, _, _)
AmountsOfMatches(p, ms, k, line, endsWithCr, endsWithDr) ==
    IF k > Len(ms) THEN << >>
    ELSE AmountOfMatch(p, ms[k], parseAmount(Group(line, ms[k], 1)), line, endsWithCr, endsWithDr)
         \o AmountsOfMatches(p, ms, k + 1, line, endsWithCr, endsWithDr)

AmountsOfPattern(p, line, endsWithCr, endsWithDr) ==
    AmountsOfMatches(p, MatchAll(p.pattern, p.ic, line), 1, line, endsWithCr, endsWithDr)

RECURSIVE AmountsOfPatterns(_, _, _, _)
AmountsOfPatterns(k, line, endsWithCr, endsWithDr) ==
    IF k > Len(AMOUNT_EXTRACTION_PATTERNS) THEN << >>
    ELSE AmountsOfPattern(AMOUNT_EXTRACTION_PATTERNS[k], line, endsWithCr, endsWithDr)
         \o AmountsOfPatterns(k + 1, line, endsWithCr, endsWithDr)

\* Array.prototype.sort((a, b) => a.position - b.position): stable
RECURSIVE InsertByPosition(_, _)
InsertByPosition(sorted, x) ==
    IF Len(sorted) = 0 THEN << x >>
    ELSE IF sorted[Len(sorted)].position - x.position <= 0 THEN Append(sorted, x)
    ELSE Append(InsertByPosition(SubSeq(sorted, 1, Len(sorted) - 1), x), sorted[Len(sorted)])

RECURSIVE SortByPosition(_, _, _)
SortByPosition(xs, k, acc) ==
    IF k > Len(xs) THEN acc ELSE SortByPosition(xs, k + 1, InsertByPosition(acc, xs[k]))

Abs(n) == IF n < 0 THEN -n ELSE n

\* reading property `position` of an object: undefined when it has none
PositionOf(obj) == IF "position" \in DOMAIN obj THEN Some(obj.position) ELSE None

\* Math.abs(p - q) < limit, where p may be undefined: NaN < limit is false
AbsDiffBelow(p, q, limit) == p.some /\ Abs(p.v - q) < limit

\* const { position: _, ...amount } = result
WithoutPosition(r) ==
    [value |-> r.value, original |-> r.original, isDebit |-> r.isDebit,
     isCredit |-> r.isCredit, confidence |-> r.confidence]

DuplicateDistance == 20

RECURSIVE Dedupe(_, _, _)
Dedupe(results, k, deduped) ==
    IF k > Len(results) THEN deduped
    ELSE LET item == results[k]
             isDuplicate ==
                 \E j \in 1..Len(deduped) :
                    /\ Abs(deduped[j].value - item.value) < 1      \* < 0.01
                    /\ AbsDiffBelow(PositionOf(deduped[j]), item.position, DuplicateDistance)
         IN  Dedupe(results, k + 1,
                    IF isDuplicate THEN deduped ELSE Append(deduped, WithoutPosition(item)))

EndsWithCR == Cat(<< WB, Lit("CR"), Star(S), EOL >>)       \* /\bCR\s*$/i
EndsWithDR == Cat(<< WB, Lit("DR"), Star(S), EOL >>)       \* /\bDR\s*$/i

\* `results` after the loop over the patterns and the sort by position
SortedResults(line) ==
    LET endsWithCr == Test(EndsWithCR, TRUE, line)
        endsWithDr == Test(EndsWithDR, TRUE, line)
        results == AmountsOfPatterns(1, line, endsWithCr, endsWithDr)
    IN  SortByPosition(results, 1, << >>)

\* extractAmounts(line); a second argument passed by a caller is ignored
extractAmounts(line) == Dedupe(SortedResults(line), 1, << >>)

\* nonBalanceAmounts.reduce((max, curr) => curr.value > max.value ? curr : max)
RECURSIVE ReduceMax(_, _, _)
ReduceMax(xs, k, max) ==
    IF k > Len(xs) THEN max
    ELSE ReduceMax(xs, k + 1, IF xs[k].value > max.value THEN xs[k] ELSE max)

\* a classification that takes the first amount for the transaction amount
\* whenever there are two or more
ClassifyFirstAndLast(amounts) ==
    IF Len(amounts) = 0 THEN [transactionAmount |-> None, balance |-> None]
    ELSE IF Len(amounts) = 1 THEN [transactionAmount |-> amounts[1], balance |-> None]
    ELSE [transactionAmount |-> amounts[1], balance |-> amounts[Len(amounts)]]

classifyAmounts(amounts) ==
    IF Len(amounts) = 0 THEN [transactionAmount |-> None, balance |-> None]
    ELSE IF Len(amounts) = 1 THEN [transactionAmount |-> amounts[1], balance |-> None]
    ELSE LET balance == amounts[Len(amounts)]
         IN  IF Len(amounts) = 2 THEN [transactionAmount |-> amounts[1], balance |-> balance]
             ELSE LET nonBalanceAmounts == SubSeq(amounts, 1, Len(amounts) - 1)
                  IN  [transactionAmount |-> ReduceMax(nonBalanceAmounts, 2, nonBalanceAmounts[1]),
                       balance |-> balance]

(***************************************************************************)
(* Layer 3c: description extractor                                         *)
(***************************************************************************)
RECURSIVE RemoveTexts(_, _, _)
RemoveTexts(description, amountTexts, k) ==
    IF k > Len(amountTexts) THEN description
    ELSE RemoveTexts(ReplaceFirst(description, amountTexts[k], ""), amountTexts, k + 1)

\* /\d{1,3}(?:,\d{3})*(?:\.\d{2})?\s+(?:Cr|DR)\b/gi
SuffixedAmount == Cat(<< Numeral, Plus(S), Alt(<< Lit("Cr"), Lit("DR") >>), WB >>)
\* /\b\d{1,3}(?:,\d{3})+\.\d{2}\b/g
CommaAmount == Cat(<< WB, Rep(D, 1, 3), Plus(Thousands), Fraction, WB >>)
\* /\b\d+\.\d{2}\b/g
DecimalAmount == Cat(<< WB, Plus(D), Fraction, WB >>)
\* /\b(REF|TXN|ID|TRACE|AUTH):\s*[A-Z0-9]+/gi
ReferenceCode ==
    Cat(<< WB, Grp(1, Alt(<< Lit("REF"), Lit("TXN"), Lit("ID"), Lit("TRACE"), Lit("AUTH") >>)),
           Lit(":"), Star(S), Plus(Cls(UpperSet \cup DigitSet)) >>)
\* /\b[A-Z0-9]{6,}\b/g
LongCode == Cat(<< WB, Rep(Cls(UpperSet \cup DigitSet), 6, -1), WB >>)
\* /\s{2,}/g
SpaceRun == Rep(S, 2, -1)
\* /^[,\-\s]+|[,\-\s]+$/g
EdgePunctuation ==
    Alt(<< Cat(<< BOL, Plus(Cls(SpaceSet \cup {",", "-"})) >>),
           Cat(<< Plus(Cls(SpaceSet \cup {",", "-"})), EOL >>) >>)
\* /[a-zA-Z]{2,}/
TwoLetters == Rep(Cls(UpperSet \cup LowerSet), 2, -1)

RECURSIVE FilterTextTokens(_, _)
FilterTextTokens(tokens, k) ==
    IF k > Len(tokens) THEN << >>
    ELSE (IF Test(TwoLetters, FALSE, tokens[k]) THEN << tokens[k] >> ELSE << >>)
         \o FilterTextTokens(tokens, k + 1)

MAX_DESCRIPTION_LENGTH == 100
MinDescriptionLength == 3
FallbackTokens == 5

\* the cleaning replacements, in the order of the source
CleanDescription(description) ==
    ReplaceAll(EdgePunctuation, FALSE,
      Trim(ReplaceAll(SpaceRun, FALSE,
        ReplaceAll(LongCode, FALSE,
          ReplaceAll(ReferenceCode, TRUE,
            ReplaceAll(DecimalAmount, FALSE,
              ReplaceAll(CommaAmount, FALSE,
                ReplaceAll(SuffixedAmount, TRUE, description, ""), ""), ""), ""), ""), " ")), "")

\* if (description.length < 3): the first five text tokens of the line
FallbackDescription(description, line, textTokens) ==
    IF Len(description) < MinDescriptionLength
    THEN Join(SubSeq(textTokens, 1, Min(FallbackTokens, Len(textTokens))), " ")
    ELSE description

\* if (description.length > MAX_DESCRIPTION_LENGTH): truncate
TruncateDescription(description) ==
    IF Len(description) > MAX_DESCRIPTION_LENGTH
    THEN Trim(SubSeq(description, 1, MAX_DESCRIPTION_LENGTH)) \o "..."
    ELSE description

extractDescription(line, dateText, amountTexts) ==
    TruncateDescription(
      FallbackDescription(
        CleanDescription(
          RemoveTexts(IF dateText # "" THEN ReplaceFirst(line, dateText, "") ELSE line,
                      amountTexts, 1)),
        line, FilterTextTokens(SplitSpaces(line), 1)))

(***************************************************************************)
(* Layer 4: transaction validator                                          *)
(***************************************************************************)
WeightValidDate == 30
WeightAmount == 25
WeightDescription == 15
WeightBalance == 10
WeightAmountFormat == 10
WeightDateRange == 10

CONFIDENCE_WEIGHTS ==
    [hasValidDate |-> WeightValidDate, hasAmount |-> WeightAmount,
     hasDescription |-> WeightDescription, hasBalance |-> WeightBalance,
     amountFormatValid |-> WeightAmountFormat, dateInReasonableRange |-> WeightDateRange]

\* /^\d{4}-\d{2}-\d{2}$/
IsoShape == Cat(<< BOL, Rep(D, 4, 4), Lit("-"), Rep(D, 2, 2), Lit("-"), Rep(D, 2, 2), EOL >>)

\* new Date(text) of a date-only ISO text: Some(day number), or None when the
\* time value is NaN (a month or day that does not exist)
DateOfISO(str) ==
    IF ~Test(IsoShape, FALSE, str) THEN None
    ELSE LET y == parseInt(SubSeq(str, 1, 4))
             m == parseInt(SubSeq(str, 6, 7))
             d == parseInt(SubSeq(str, 9, 10))
         IN  IF m < 1 \/ m > 12 \/ d < 1 \/ d > DaysInMonth(y, m) THEN None
             ELSE Some(DayNumber(y, m - 1, d))

ReasonableYears == 5

\* isDateReasonable(dateStr): not after now, not before five years ago
isDateReasonable(dateStr, nowDay) ==
    LET date == DateOfISO(dateStr).v
        now == DayNumber(nowDay.year, nowDay.month - 1, nowDay.day)
        fiveYearsAgo == DayNumber(nowDay.year - ReasonableYears, nowDay.month - 1, nowDay.day)
    IN  IF date > now THEN FALSE
        ELSE IF date < fiveYearsAgo THEN FALSE
        ELSE TRUE

\* Boolean(x) of an optional number
Truthy(opt) == opt.some /\ opt.v # 0

\* /[a-zA-Z]+/
SomeLetters == Plus(Cls(UpperSet \cup LowerSet))

\* the factors, given the first of them
FactorsOf(txn, hasValidDate, nowDay) ==
        [hasValidDate |-> hasValidDate,
         hasAmount |-> Truthy(txn.payment) \/ Truthy(txn.receipt),
         hasDescription |->
            /\ txn.description # ""
            /\ Len(txn.description) >= MinDescriptionLength
            /\ Test(SomeLetters, FALSE, txn.description),
         hasBalance |-> txn.balance.some /\ txn.balance.v >= 0,
         amountFormatValid |->
            /\ ~txn.payment.some \/ txn.payment.v >= 0
            /\ ~txn.receipt.some \/ txn.receipt.v >= 0,
         dateInReasonableRange |-> hasValidDate /\ isDateReasonable(txn.date, nowDay)]

calculateConfidenceFactors(txn, nowDay) ==
    FactorsOf(txn,
              /\ txn.date # ""
              /\ Test(IsoShape, FALSE, txn.date)
              /\ DateOfISO(txn.date).some,
              nowDay)

\* calculateConfidenceScore with the hasBalance term left out
ScoreWithoutBalance(factors) ==
    (IF factors.hasValidDate THEN CONFIDENCE_WEIGHTS.hasValidDate ELSE 0)
    + (IF factors.hasAmount THEN CONFIDENCE_WEIGHTS.hasAmount ELSE 0)
    + (IF factors.hasDescription THEN CONFIDENCE_WEIGHTS.hasDescription ELSE 0)
    + (IF factors.amountFormatValid THEN CONFIDENCE_WEIGHTS.amountFormatValid ELSE 0)
    + (IF factors.dateInReasonableRange THEN CONFIDENCE_WEIGHTS.dateInReasonableRange ELSE 0)

\* calculateConfidenceScore with the amountFormatValid term left out
ScoreWithoutFormat(factors) ==
    (IF factors.hasValidDate THEN CONFIDENCE_WEIGHTS.hasValidDate ELSE 0)
    + (IF factors.hasAmount THEN CONFIDENCE_WEIGHTS.hasAmount ELSE 0)
    + (IF factors.hasDescription THEN CONFIDENCE_WEIGHTS.hasDescription ELSE 0)
    + (IF factors.hasBalance THEN CONFIDENCE_WEIGHTS.hasBalance ELSE 0)
    + (IF factors.dateInReasonableRange THEN CONFIDENCE_WEIGHTS.dateInReasonableRange ELSE 0)

calculateConfidenceScore(factors) ==
    LET s1 == IF factors.hasValidDate THEN CONFIDENCE_WEIGHTS.hasValidDate ELSE 0
        s2 == IF factors.hasAmount THEN s1 + CONFIDENCE_WEIGHTS.hasAmount ELSE s1
        s3 == IF factors.hasDescription THEN s2 + CONFIDENCE_WEIGHTS.hasDescription ELSE s2
        s4 == IF factors.hasBalance THEN s3 + CONFIDENCE_WEIGHTS.hasBalance ELSE s3
        s5 == IF factors.amountFormatValid THEN s4 + CONFIDENCE_WEIGHTS.amountFormatValid ELSE s4
        s6 == IF factors.dateInReasonableRange THEN s5 + CONFIDENCE_WEIGHTS.dateInReasonableRange ELSE s5
    IN  s6

\* the issues without the one for a missing description
IssuesWithoutDescription(factors) ==
    (IF ~factors.hasValidDate THEN << "Invalid or missing date" >> ELSE << >>)
    \o (IF ~factors.hasAmount THEN << "No transaction amount found" >> ELSE << >>)
    \o (IF ~factors.dateInReasonableRange THEN << "Date is outside reasonable range" >> ELSE << >>)
    \o (IF ~factors.amountFormatValid THEN << "Amount format is invalid" >> ELSE << >>)

IssuesOf(factors) ==
    (IF ~factors.hasValidDate THEN << "Invalid or missing date" >> ELSE << >>)
    \o (IF ~factors.hasAmount THEN << "No transaction amount found" >> ELSE << >>)
    \o (IF ~factors.hasDescription THEN << "Missing or invalid description" >> ELSE << >>)
    \o (IF ~factors.dateInReasonableRange THEN << "Date is outside reasonable range" >> ELSE << >>)
    \o (IF ~factors.amountFormatValid THEN << "Amount format is invalid" >> ELSE << >>)

\* validateTransaction(transaction): { ...transaction, confidence, factors, issues }
Validated(txn, factors) ==
    [date |-> txn.date, description |-> txn.description,
     payment |-> txn.payment, receipt |-> txn.receipt,
     balance |-> txn.balance, rawLine |-> txn.rawLine,
     confidence |-> calculateConfidenceScore(factors),
     factors |-> factors,
     issues |-> IssuesOf(factors)]

validateTransaction(txn, nowDay) == Validated(txn, calculateConfidenceFactors(txn, nowDay))

\* isValidTransaction without the two critical checks: the score alone decides
ScoreOnlyValid(txn, minConfidence) == txn.confidence >= minConfidence

isValidTransaction(txn, minConfidence) ==
    IF txn.confidence < minConfidence THEN FALSE
    ELSE IF ~txn.factors.hasValidDate THEN FALSE
    ELSE IF ~txn.factors.hasAmount THEN FALSE
    ELSE TRUE

(***************************************************************************)
(* parseLine: one candidate line to a scored transaction, or None          *)
(***************************************************************************)
DEBIT_KEYWORDS == << "KAS-IB-TRF TO", "KAS-cc", "KAS-chamika", "KAS-EFT-Chg", "Cash advance" >>
CREDIT_KEYWORDS == << "KAS-IB-TRF FROM", "OPENING BALANCE", "DEPOSIT" >>

HasKeyword(keywords, line) == \E k \in 1..Len(keywords) : Includes(line, keywords[k])

\* /(\d{1,3}(?:,\d{3})*(?:\.\d{2})?)\s+(?:Cr|Dr)\s*$/i
BalancePattern == Cat(<< Grp(1, Numeral), Plus(S), Alt(<< Lit("Cr"), Lit("Dr") >>), Star(S), EOL >>)

RECURSIVE Originals(_, _)
Originals(amounts, k) ==
    IF k > Len(amounts) THEN << >> ELSE << amounts[k].original >> \o Originals(amounts, k + 1)

\* Steps 3-7 of parseLine: keyword sign resolution, description, balance,
\* validation
\* a side taken from the keywords first, whatever sign the amount carries
KeywordIsDebit(transactionAmount, hasDebitKeyword, hasCreditKeyword) ==
    IF hasDebitKeyword THEN TRUE
    ELSE IF hasCreditKeyword THEN FALSE
    ELSE transactionAmount.isDebit

\* if (!transactionAmount.isCredit && !transactionAmount.isDebit) { ... }
Unresolved(transactionAmount) == ~transactionAmount.isCredit /\ ~transactionAmount.isDebit

\* an amount of unknown side taken for a payment unless a credit keyword is found
DebitUnlessCredit(transactionAmount, hasDebitKeyword, hasCreditKeyword) ==
    IF Unresolved(transactionAmount) /\ hasDebitKeyword THEN TRUE
    ELSE IF Unresolved(transactionAmount) /\ hasCreditKeyword THEN FALSE
    ELSE IF Unresolved(transactionAmount) THEN TRUE
    ELSE transactionAmount.isDebit

FinalIsDebit(transactionAmount, hasDebitKeyword, hasCreditKeyword) ==
    IF Unresolved(transactionAmount) /\ hasDebitKeyword THEN TRUE
    ELSE IF Unresolved(transactionAmount) /\ hasCreditKeyword THEN FALSE
    ELSE transactionAmount.isDebit

\* the credit keyword applied whatever the flags of the amount are
CreditByKeyword(transactionAmount, hasDebitKeyword, hasCreditKeyword) ==
    transactionAmount.isCredit \/ (hasCreditKeyword /\ ~hasDebitKeyword)

FinalIsCredit(transactionAmount, hasDebitKeyword, hasCreditKeyword) ==
    IF Unresolved(transactionAmount) /\ hasDebitKeyword THEN FALSE
    ELSE IF Unresolved(transactionAmount) /\ hasCreditKeyword THEN TRUE
    ELSE transactionAmount.isCredit

ResolveLine(line, dateResult, amounts, transactionAmount, hasDebitKeyword, hasCreditKeyword, balanceMatch, nowDay) ==
    LET finalIsDebit == FinalIsDebit(transactionAmount, hasDebitKeyword, hasCreditKeyword)
        finalIsCredit == FinalIsCredit(transactionAmount, hasDebitKeyword, hasCreditKeyword)
    IN  validateTransaction(
            [date |-> dateResult.value,
             description |-> extractDescription(line, dateResult.original, Originals(amounts, 1)),
             payment |-> IF finalIsDebit THEN Some(transactionAmount.value) ELSE None,
             receipt |-> IF finalIsCredit THEN Some(transactionAmount.value) ELSE None,
             balance |-> IF balanceMatch.found
                         THEN Some(ParseHundredths(RemoveCommas(Group(line, balanceMatch, 1))))
                         ELSE None,
             rawLine |-> line], nowDay)

\* Step 2 without its early return: a line without a transaction amount is
\* carried on with an amount of zero
ClassifyLineLenient(line, dateResult, amounts, transactionAmount, nowDay) ==
    ResolveLine(line, dateResult, amounts,
                IF transactionAmount = None
                THEN [value |-> 0, original |-> "", isDebit |-> FALSE, isCredit |-> FALSE]
                ELSE transactionAmount,
                HasKeyword(DEBIT_KEYWORDS, line), HasKeyword(CREDIT_KEYWORDS, line),
                Match(BalancePattern, TRUE, line), nowDay)

\* Step 2 of parseLine: if (!transactionAmount) return null
ClassifyLine(line, dateResult, amounts, transactionAmount, nowDay) ==
    IF transactionAmount = None THEN None
    ELSE ResolveLine(line, dateResult, amounts, transactionAmount,
                     HasKeyword(DEBIT_KEYWORDS, line), HasKeyword(CREDIT_KEYWORDS, line),
                     Match(BalancePattern, TRUE, line), nowDay)

AmountsOfLine(line, dateResult, amounts, nowDay) ==
    ClassifyLine(line, dateResult, amounts, classifyAmounts(amounts).transactionAmount, nowDay)

\* Step 1 without its early return: a line without a date is carried on with
\* an empty date
DatedLineLenient(line, dateResult, nowDay) ==
    AmountsOfLine(line,
                  IF dateResult = None THEN [value |-> "", original |-> "#"] ELSE dateResult,
                  extractAmounts(line), nowDay)

\* Step 1 of parseLine: if (!dateResult) return null
DatedLine(line, dateResult, nowDay) ==
    IF dateResult = None THEN None
    ELSE AmountsOfLine(line, dateResult, extractAmounts(line), nowDay)

\* const preferDDMM = options.dateFormat !== 'MM/DD/YYYY'
PreferDDMM(lineOptions) == lineOptions.dateFormat # "MM/DD/YYYY"

parseLine(line, lineNumber, lineOptions, nowDay) ==
    DatedLine(line, extractDate(line, PreferDDMM(lineOptions), nowDay), nowDay)

(***************************************************************************)
(* Layer 1: line normaliser                                                *)
(***************************************************************************)
Word(str) == Lit(str)

NOISE_PATTERNS ==
    << [ic |-> TRUE, pattern |-> Cat(<< BOL, Word("page"), Plus(S), Plus(D) >>)],                   \* /^page\s+\d+/i
       [ic |-> TRUE, pattern |-> Cat(<< BOL, Plus(D), Plus(S), Word("of"), Plus(S), Plus(D), EOL >>)], \* /^\d+\s+of\s+\d+$/i
       [ic |-> TRUE, pattern |-> Cat(<< BOL, Word("statement"), Plus(S), Word("period") >>)],       \* /^statement\s+period/i
       [ic |-> TRUE, pattern |-> Cat(<< BOL, Word("account"), Plus(S), Word("number") >>)],         \* /^account\s+number/i
       [ic |-> TRUE, pattern |-> Cat(<< BOL, Word("account"), Plus(S), Word("summary") >>)],        \* /^account\s+summary/i
       [ic |-> TRUE, pattern |-> Cat(<< BOL, Word("opening"), Plus(S), Word("balance") >>)],        \* /^opening\s+balance/i
       [ic |-> TRUE, pattern |-> Cat(<< BOL, Word("closing"), Plus(S), Word("balance") >>)],        \* /^closing\s+balance/i
       [ic |-> TRUE, pattern |-> Cat(<< BOL, Word("total"), Plus(S),                                \* /^total\s+(debits?|credits?)/i
                                        Grp(1, Alt(<< Cat(<< Word("debit"), Opt(Lit("s")) >>),
                                                      Cat(<< Word("credit"), Opt(Lit("s")) >>) >>)) >>)],
       [ic |-> TRUE, pattern |-> Cat(<< BOL, Word("date"), Plus(S),                                 \* /^date\s+(description|details)/i
                                        Grp(1, Alt(<< Word("description"), Word("details") >>)) >>)],
       [ic |-> TRUE, pattern |-> Cat(<< BOL, Grp(1, Alt(<< Word("debit"), Word("credit"), Word("balance") >>)), EOL >>)], \* /^(debit|credit|balance)$/i
       [ic |-> TRUE, pattern |-> Cat(<< BOL, Word("amount"), Plus(S), Word("balance"), EOL >>)],    \* /^amount\s+balance$/i
       [ic |-> FALSE, pattern |-> Cat(<< BOL, Rep(Cls(UpperSet \cup SpaceSet), 50, -1), EOL >>)],   \* /^[A-Z\s]{50,}$/
       [ic |-> FALSE, pattern |-> Cat(<< BOL, Rep(Cls(SpaceSet \cup {"-", "=", "_", "*"}), 10, -1), EOL >>)], \* /^[\-=_\s*]{10,}$/
       [ic |-> TRUE, pattern |-> Cat(<< BOL, Grp(1, Alt(<< Word("continued"), Word("cont."), Word("contd") >>)) >>)] >> \* /^(continued|cont\.|contd)/i

MIN_LINE_LENGTH == 10
MAX_LINE_LENGTH == 300

splitIntoLines(str) == SplitOn(str, "\n")

\* /\s*:\s*/g
ColonSpacing == Cat(<< Star(S), Lit(":"), Star(S) >>)

normalizeLine(line) ==
    ReplaceAll(ColonSpacing, FALSE, ReplaceAll(SpaceRun, FALSE, Trim(line), " "), ": ")

\* a noise test on the length alone
TooShortOrLong(line) == Len(line) < MIN_LINE_LENGTH \/ Len(line) > MAX_LINE_LENGTH

isNoiseLine(line) ==
    IF Len(line) < MIN_LINE_LENGTH THEN TRUE
    ELSE IF Len(line) > MAX_LINE_LENGTH THEN TRUE
    ELSE \E k \in 1..Len(NOISE_PATTERNS) : Test(NOISE_PATTERNS[k].pattern, NOISE_PATTERNS[k].ic, line)

SmartSplitMinLines == 5
SmartSplitMinLength == 500

\* the date shapes smartSplitLines cuts at
SplitDatePatterns ==
    << Grp(1, Cat(<< Rep(D, 1, 2), Lit("/"), Rep(D, 1, 2), Lit("/"), Rep(D, 2, 4) >>)),   \* /(\d{1,2}\/\d{1,2}\/\d{2,4})/g
       Grp(1, Cat(<< Rep(D, 4, 4), Lit("-"), Rep(D, 2, 2), Lit("-"), Rep(D, 2, 2) >>)) >> \* /(\d{4}-\d{2}-\d{2})/g

\* the chunks between successive matches; lastIndex and match.index zero-based
RECURSIVE SplitAtMatches(_, _, _, _)
SplitAtMatches(str, ms, k, lastIndex) ==
    IF k > Len(ms)
    THEN (IF lastIndex < Len(str) /\ Len(Trim(SubSeq(str, lastIndex + 1, Len(str)))) > 0
          THEN << Trim(SubSeq(str, lastIndex + 1, Len(str))) >> ELSE << >>)
    ELSE LET index == ms[k].index - 1
         IN  IF index # 0 /\ index > lastIndex
             THEN (IF Len(Trim(SubSeq(str, lastIndex + 1, index))) > 0
                   THEN << Trim(SubSeq(str, lastIndex + 1, index)) >> ELSE << >>)
                  \o SplitAtMatches(str, ms, k + 1, index)
             ELSE SplitAtMatches(str, ms, k + 1, lastIndex)

\* if (parts.length > bestSplit.length) bestSplit = parts
Longer(parts, bestSplit) == IF Len(parts) > Len(bestSplit) THEN parts ELSE bestSplit

RECURSIVE BestSplit(_, _, _)
BestSplit(str, k, bestSplit) ==
    IF k > Len(SplitDatePatterns) THEN bestSplit
    ELSE BestSplit(str, k + 1,
                   Longer(SplitAtMatches(str, MatchAll(SplitDatePatterns[k], FALSE, str), 1, 0),
                          bestSplit))

\* lines: the split on line feeds
SmartSplitOf(str, lines) ==
    IF Len(lines) < SmartSplitMinLines /\ Len(str) > SmartSplitMinLength
    THEN BestSplit(str, 1, lines)
    ELSE lines

smartSplitLines(str) == SmartSplitOf(str, SplitOn(str, "\n"))

(***************************************************************************)
(* Layer 2: candidate detector                                             *)
(***************************************************************************)
DATE_PATTERNS ==
    << [ic |-> FALSE, pattern |-> Cat(<< WB, Rep(D, 4, 4), Lit("-"), Rep(D, 2, 2), Lit("-"), Rep(D, 2, 2), WB >>)],
       [ic |-> FALSE, pattern |-> Cat(<< WB, Rep(D, 1, 2), DateSep, Rep(D, 1, 2), DateSep, Rep(D, 4, 4), WB >>)],
       [ic |-> TRUE, pattern |-> Cat(<< WB, Rep(D, 1, 2), Cls(SpaceSet \cup {"-"}), Grp(1, MonthAbbrev),
                                        Star(Cls(LowerSet)), Star(Cls(SpaceSet \cup {"-"})), Rep(D, 4, 4), WB >>)],
       [ic |-> TRUE, pattern |-> Cat(<< WB, Grp(1, MonthAbbrev), Star(Cls(LowerSet)), Plus(S),
                                        Rep(D, 1, 2), Opt(Lit(",")), Plus(S), Rep(D, 4, 4), WB >>)],
       [ic |-> FALSE, pattern |-> Cat(<< WB, Rep(D, 1, 2), DateSep, Rep(D, 1, 2), DateSep, Rep(D, 2, 2), WB >>)] >>

StartOrSpace == Alt(<< BOL, S >>)        \* (?:^|\s)
SpaceOrEnd == Alt(<< S, EOL >>)          \* (?:\s|$)

AMOUNT_PATTERNS ==
    << [ic |-> FALSE,      \* /(?:^|\s)[$..]?\s*NUM(?:\s|$)/
        pattern |-> Cat(<< StartOrSpace, Opt(Currency), Star(S), Numeral, SpaceOrEnd >>)],
       [ic |-> FALSE,      \* /\(NUM\)/
        pattern |-> Cat(<< Lit("("), Numeral, Lit(")") >>)],
       [ic |-> TRUE,       \* /NUM\s*(?:CR|DR)/i
        pattern |-> Cat(<< Numeral, Star(S), Alt(<< Lit("CR"), Lit("DR") >>) >>)],
       [ic |-> FALSE,      \* /(?:^|\s)-\s*NUM(?:\s|$)/
        pattern |-> Cat(<< StartOrSpace, Lit("-"), Star(S), Numeral, SpaceOrEnd >>)] >>

hasDatePattern(line) ==
    \E k \in 1..Len(DATE_PATTERNS) : Test(DATE_PATTERNS[k].pattern, DATE_PATTERNS[k].ic, line)

hasAmountPattern(line) ==
    \E k \in 1..Len(AMOUNT_PATTERNS) : Test(AMOUNT_PATTERNS[k].pattern, AMOUNT_PATTERNS[k].ic, line)

\* new RegExp(pattern, 'g') keeps the source text and replaces the flags
RECURSIVE CountAmountMatches(_, _)
CountAmountMatches(line, k) ==
    IF k > Len(AMOUNT_PATTERNS) THEN 0
    ELSE Len(MatchAll(AMOUNT_PATTERNS[k].pattern, FALSE, line)) + CountAmountMatches(line, k + 1)

MinBalanceMatches == 2
hasBalancePattern(line) == CountAmountMatches(line, 1) >= MinBalanceMatches

MinTokens == 3
hasGoodStructure(line) ==
    IF Len(SplitSpaces(line)) < MinTokens THEN FALSE
    ELSE Test(TwoLetters, FALSE, line) /\ Test(Plus(D), FALSE, line)

\* the CandidateLine of a line, given its indicators
CandidateOf(line, index, hasDate, hasAmount, hasBalance, goodStructure) ==
    [line |-> line,
     lineNumber |-> index + 1,
     hasDate |-> hasDate,
     hasAmount |-> hasAmount,
     hasBalance |-> hasBalance,
     likelyTransaction |-> (hasDate /\ hasAmount) \/ (goodStructure /\ (hasDate \/ hasAmount))]

detectCandidate(line, index) ==
    CandidateOf(line, index, hasDatePattern(line), hasAmountPattern(line),
                hasBalancePattern(line), hasGoodStructure(line))

(***************************************************************************)
(* Inputs.  A text is at most MaxLines lines drawn from RawLines and        *)
(* joined by line feeds (so every text is shorter than the threshold of    *)
(* smartSplitLines' date-anchored split); `today` is the day the call      *)
(* runs; every option may be left out.                                     *)
(***************************************************************************)
MaxLines == 2

RawLines ==
    << "15/01/2024 Grocery Store -125.50 2450.75",
       "17/11/25 Cash advance 432572******5281 6,000.00 6,063.00 Cr",
       "Miscellaneous fee applied 25.00",
       "Page 2 of 5",
       "05/11/25 Cash advance ATM 150.00",
       "15/01/24 Coffee shop 12.50",
       "  12/03/25  Card refund 45.00   1,245.00 Cr",
       "Monthly service fee 250.00",
       "03/04/25 DEPOSIT salary 1,200.00",
       "Thank you for banking with us",
       "01/02/20 Old transfer 300.00 Dr",
       "17/11/25 500.00 Cr" >>

Todays == { [year |-> 2026, month |-> 11, day |-> 4] }

OptionSets ==
    [ minConfidence : { None, Some(-10), Some(95) },
      dateFormat : { None, Some("MM/DD/YYYY") },
      strict : { None, Some(TRUE) } ]

\* lines of a statement's layout, one or more for each noise signature, and
\* lines just inside and just outside the lengths kept
RECURSIVE Repeat(_, _)
Twice(str) == str \o str
Repeat(str, n) ==
    IF n = 0 THEN ""
    ELSE IF n % 2 = 1 THEN str \o Twice(Repeat(str, n \div 2))
    ELSE Twice(Repeat(str, n \div 2))

KeptLayoutLines ==
    { "Fee 112.50", "Home page 1 fee 10.00", "05/11/25 " \o Repeat("x", 291) }

DroppedLayoutLines ==
    { "page 12345", "PAGE 12 continued", "12 of 3456",
      "Statement Period: 01/01/25 - 31/01/25", "Account Number : 123456", "Account summary",
      "Opening Balance 1,000.00", "Closing balance 2,000.00", "Total Debits 500.00",
      "total credit 10.00", "Date Description Amount", "date details", "Amount Balance",
      "THIS STATEMENT IS ISSUED SUBJECT TO THE TERMS AND CONDITIONS",
      "----------", "== ** == __ ==", "Continued on next page", "cont. overleaf",
      "contd from page 1", "Fee 12.50", "         ", "05/11/25 " \o Repeat("x", 292) }

LayoutLineSet == KeptLayoutLines \cup DroppedLayoutLines

LayoutTexts ==
    LayoutLineSet
    \cup { first \o "\n" \o second : first \in LayoutLineSet, second \in {"Fee 112.50", "Page 2 of 5"} }
    \cup { "Fee 112.50" \o "\n" \o second : second \in LayoutLineSet }

\* lines of up to MaxTokens amounts, for classifyAmounts on its own
AmountTokens == << "100.00", "500.00", "900.00", "-300.00" >>
MaxTokens == 3
TokenChoices == UNION { [1..n -> 1..Len(AmountTokens)] : n \in 0..MaxTokens }
LineOfTokens(choice) ==
    Join(<< "Pay" >> \o [k \in 1..Len(choice) |-> AmountTokens[choice[k]]], " ")
AmountLines == { LineOfTokens(choice) : choice \in TokenChoices }

\* the lines of amounts bare, and ending with a credit or a debit marker
AmountMarkers == << "", " Cr", " DR" >>
MarkedLines ==
    { "Fee $250.00 Cr", "Fee (250.00) Cr", "Fee (250.00) dr", "Fee 1,250.00 900 DR",
      "Fee 250.00 DR 300.00 cr ", "Fee -250.00 Cr", "Fee $250.00", "Fee 1,250.00",
      "Fee 250.00 Cr 300.00", "Fee 250.00 Credit", "Fee 250.00CR", "Fee 250.00 XCR" }
MarkedAmountLines ==
    { line \o AmountMarkers[k] : line \in AmountLines, k \in 1..Len(AmountMarkers) }
    \cup MarkedLines

LineChoices == UNION { [1..n -> 1..Len(RawLines)] : n \in 0..MaxLines }
TextOf(choice) == Join([k \in 1..Len(choice) |-> RawLines[choice[k]]], "\n")
Texts == { TextOf(choice) : choice \in LineChoices }

(***************************************************************************)
(* Tabulation.  The line-level functions are evaluated once for every line *)
(* the bounded inputs contain: a table is the set of pairs << x, F(x) >>,  *)
(* and F_(x) is F(x) read from the table.                                  *)
(***************************************************************************)
Lookup(table, key) == (CHOOSE pair \in table : pair[1] = key)[2]

\* the lines a text splits into: the empty text splits into one empty line
\* lines whose amount carries a sign of its own, and lines with a keyword
SignLines ==
    { "03/04/25 DEPOSIT reversal -75.00",
      "05/11/25 Cash advance refund 80.00 CR 900.00",
      "12/03/25 DEPOSIT charge (20.00)",
      "05/11/25 OPENING BALANCE 70.00 DR",
      "12/03/25 KAS-IB-TRF TO savings 400.00",
      "12/03/25 KAS-IB-TRF FROM savings 400.00",
      "12/03/25 DEPOSIT Cash advance 600.00",
      "12/03/25 Bookshop 130.00",
      "01/02/20 (300.00)" }

RawLineSet == { RawLines[k] : k \in 1..Len(RawLines) } \cup { "" } \cup SignLines
\* a rawLine may be a line again: the normalised lines are tabulated as well
RawNormalizeTable == { << line, normalizeLine(line) >> : line \in RawLineSet }
ParsedLinesTable ==
    RawNormalizeTable
    \cup { << pair[2], normalizeLine(pair[2]) >> : pair \in RawNormalizeTable }
LayoutNormalizeTable == { << line, normalizeLine(line) >> : line \in LayoutLineSet }
NormalizeTable == ParsedLinesTable \cup LayoutNormalizeTable
normalizeLine_(line) == Lookup(NormalizeTable, line)

\* the normalised lines of the texts that are parsed, and of all texts
NormLineSet == { pair[2] : pair \in ParsedLinesTable }
AllNormLineSet == { pair[2] : pair \in NormalizeTable }
NoiseTable == { << line, isNoiseLine(line) >> : line \in AllNormLineSet }
isNoiseLine_(line) == Lookup(NoiseTable, line)

DetectTable == { << line, detectCandidate(line, 0) >> : line \in NormLineSet }
detectCandidate_(line, index) ==
    [Lookup(DetectTable, line) EXCEPT !.lineNumber = index + 1]

FormatOf(preferDDMM) == IF preferDDMM THEN "auto" ELSE "MM/DD/YYYY"
\* the days on which a repeated call may run
CallDays == Todays \cup { [year |-> 2024, month |-> 11, day |-> 4] }

ParseTable ==
    { << key, parseLine(key[1], 0, [dateFormat |-> FormatOf(key[2])], key[3]) >> :
        key \in NormLineSet \X BOOLEAN \X CallDays }
\* a parseLine that takes the first line of a text for a header row
parseLineAfterHeader_(line, lineNumber, lineOptions, day) ==
    IF lineNumber = 1 THEN None
    ELSE Lookup(ParseTable, << line, PreferDDMM(lineOptions), day >>)

parseLine_(line, lineNumber, lineOptions, day) ==
    Lookup(ParseTable, << line, PreferDDMM(lineOptions), day >>)

(***************************************************************************)
(* normalizeLines, detectCandidates, filterLikelyCandidates                *)
(***************************************************************************)
RECURSIVE MapNormalize(_, _)
MapNormalize(lines, k) ==
    IF k > Len(lines) THEN << >> ELSE << normalizeLine_(lines[k]) >> \o MapNormalize(lines, k + 1)

RECURSIVE filterNoiseLinesFrom(_, _)
filterNoiseLinesFrom(lines, k) ==
    IF k > Len(lines) THEN << >>
    ELSE (IF ~isNoiseLine_(lines[k]) THEN << lines[k] >> ELSE << >>) \o filterNoiseLinesFrom(lines, k + 1)

\* no noise filter: every normalised line is kept
KeepNoiseLines(lines) == lines

filterNoiseLines(lines) == filterNoiseLinesFrom(lines, 1)

RECURSIVE FilterNonEmpty(_, _)
FilterNonEmpty(lines, k) ==
    IF k > Len(lines) THEN << >>
    ELSE (IF Len(lines[k]) > 0 THEN << lines[k] >> ELSE << >>) \o FilterNonEmpty(lines, k + 1)

normalizeLines(t) ==
    FilterNonEmpty(filterNoiseLines(MapNormalize(smartSplitLines(t), 1)), 1)

detectCandidates(lines) == [k \in 1..Len(lines) |-> detectCandidate_(lines[k], k - 1)]

RECURSIVE filterLikelyFrom(_, _)
filterLikelyFrom(candidates, k) ==
    IF k > Len(candidates) THEN << >>
    ELSE (IF candidates[k].likelyTransaction THEN << candidates[k] >> ELSE << >>)
         \o filterLikelyFrom(candidates, k + 1)

\* no filter at all: every line is handed to Layer 3
AllCandidates(candidates) == candidates

filterLikelyCandidates(candidates) == filterLikelyFrom(candidates, 1)

(***************************************************************************)
(* parseTransactions                                                       *)
(***************************************************************************)
VARIABLES
    text,               \* argument: the extracted text
    options,            \* argument: ParsingOptions, each field optional
    today,              \* the day of new Date()
    pc,                 \* "start", "detect", "loop", "done"
    opts,               \* options with the defaults filled in
    normalized,         \* Layer 1 output
    likelyCandidates,   \* Layer 2 output
    idx,                \* position of the for loop in likelyCandidates
    transaction,        \* parseLine's result for the candidate last processed
    parsed,             \* accepted ParsedTransactions; each carries the line
                        \* number of its candidate (lineNumber), which the source
                        \* object does not hold: it serves to state ordering
    skipped,            \* SkippedLines
    result,             \* the returned ParsingResult, once done
    previous,           \* what the caller kept of an earlier call, if there
                        \* was one
    extraction          \* a call of extractPdfText, the upstream text source:
                        \* its options, locals and outcome (None when the
                        \* parser is called on a text given directly)

vars == << text, options, today, pc, opts, normalized, likelyCandidates, idx,
           transaction, parsed, skipped, result, previous, extraction >>

DefaultMinConfidence == 50

Init ==
    /\ text \in Texts
    /\ options \in OptionSets
    /\ today \in Todays
    /\ pc = "start"
    /\ opts = None
    /\ normalized = << >>
    /\ likelyCandidates = << >>
    /\ idx = 1
    /\ transaction = None
    /\ parsed = << >>
    /\ skipped = << >>
    /\ result = None
    /\ previous = None
    /\ extraction = None

\* the defaults with strict read: in strict mode nothing below full
\* confidence is accepted
DefaultsWithStrict(given) ==
    [minConfidence |-> IF given.strict = Some(TRUE) THEN 100
                       ELSE IF given.minConfidence.some THEN given.minConfidence.v
                       ELSE DefaultMinConfidence,
     dateFormat |-> IF given.dateFormat.some THEN given.dateFormat.v ELSE "auto",
     strict |-> IF given.strict.some THEN given.strict.v ELSE FALSE]

\* const opts = { minConfidence: options.minConfidence ?? 50, ... }
WithDefaults(given) ==
    [minConfidence |-> IF given.minConfidence.some THEN given.minConfidence.v
                       ELSE DefaultMinConfidence,
     dateFormat |-> IF given.dateFormat.some THEN given.dateFormat.v ELSE "auto",
     strict |-> IF given.strict.some THEN given.strict.v ELSE FALSE]

\* the defaults, then Layer 1
Normalize ==
    /\ pc = "start"
    /\ opts' = WithDefaults(options)
    /\ normalized' = normalizeLines(text)
    /\ pc' = "detect"
    /\ UNCHANGED << extraction, previous, text, options, today, likelyCandidates, idx, transaction, parsed, skipped, result >>

\* Layer 2
Detect ==
    /\ pc = "detect"
    /\ likelyCandidates' = filterLikelyCandidates(detectCandidates(normalized))
    /\ idx' = 1
    /\ pc' = "loop"
    /\ UNCHANGED << extraction, previous, text, options, today, opts, normalized, transaction, parsed, skipped, result >>

Candidate == likelyCandidates[idx]
Parsed == parseLine_(Candidate.line, Candidate.lineNumber, opts, today)

\* loop body: parseLine returned null
SkipUnparsed ==
    /\ pc = "loop" /\ idx <= Len(likelyCandidates)
    /\ Parsed = None
    /\ transaction' = None
    /\ skipped' = Append(skipped, [line |-> Candidate.line,
                                   lineNumber |-> Candidate.lineNumber,
                                   reason |-> "Failed to extract required fields",
                                   confidence |-> 0])
    /\ idx' = idx + 1
    /\ UNCHANGED << extraction, previous, text, options, today, pc, opts, normalized, likelyCandidates, parsed, result >>

\* loop body: the transaction t meets the minimum requirements
AcceptTransaction(t) ==
    /\ t # None
    /\ isValidTransaction(t, opts.minConfidence)
    /\ transaction' = t
    /\ parsed' = Append(parsed, [tx |-> t, lineNumber |-> Candidate.lineNumber])
    /\ idx' = idx + 1
    /\ UNCHANGED << extraction, previous, text, options, today, pc, opts, normalized, likelyCandidates, skipped, result >>

Accept ==
    /\ pc = "loop" /\ idx <= Len(likelyCandidates)
    /\ AcceptTransaction(Parsed)

\* loop body: the transaction t is rejected
RejectTransaction(t) ==
    /\ t # None
    /\ ~isValidTransaction(t, opts.minConfidence)
    /\ transaction' = t
    /\ skipped' = Append(skipped,
                     [line |-> Candidate.line,
                      lineNumber |-> Candidate.lineNumber,
                      reason |-> "Low confidence (" \o ToString(t.confidence) \o "%). Issues: "
                                 \o Join(t.issues, ", "),
                      confidence |-> t.confidence])
    /\ idx' = idx + 1
    /\ UNCHANGED << extraction, previous, text, options, today, pc, opts, normalized, likelyCandidates, parsed, result >>

Reject ==
    /\ pc = "loop" /\ idx <= Len(likelyCandidates)
    /\ RejectTransaction(Parsed)

\* new Date(t.date).getTime(), in days
TimeOf(entry) == DateOfISO(entry.tx.date).v

\* an insertion that places x before the entries of its own date: an unstable sort
RECURSIVE InsertBeforeEqual(_, _)
InsertBeforeEqual(sorted, x) ==
    IF Len(sorted) = 0 THEN << x >>
    ELSE IF TimeOf(sorted[Len(sorted)]) - TimeOf(x) < 0 THEN Append(sorted, x)
    ELSE Append(InsertBeforeEqual(SubSeq(sorted, 1, Len(sorted) - 1), x), sorted[Len(sorted)])

\* parsed.sort((a, b) => dateA.getTime() - dateB.getTime()): stable
RECURSIVE InsertByDate(_, _)
InsertByDate(sorted, x) ==
    IF Len(sorted) = 0 THEN << x >>
    ELSE IF TimeOf(sorted[Len(sorted)]) - TimeOf(x) <= 0 THEN Append(sorted, x)
    ELSE Append(InsertByDate(SubSeq(sorted, 1, Len(sorted) - 1), x), sorted[Len(sorted)])

\* no sort at all: the accepted transactions stay in encounter order
KeepOrder(xs, k, acc) == xs

RECURSIVE SortByDate(_, _, _)
SortByDate(xs, k, acc) ==
    IF k > Len(xs) THEN acc ELSE SortByDate(xs, k + 1, InsertByDate(acc, xs[k]))

RECURSIVE SumConfidence(_, _)
SumConfidence(xs, k) == IF k > Len(xs) THEN 0 ELSE xs[k].tx.confidence + SumConfidence(xs, k + 1)

\* Math.round(n / d) for n >= 0, d > 0
RoundDiv(n, d) == (2 * n + d) \div (2 * d)

\* after the loop: sort, statistics, result
Finish ==
    /\ pc = "loop" /\ idx > Len(likelyCandidates)
    /\ LET sorted == SortByDate(parsed, 1, << >>)
           avgConfidence == IF Len(sorted) > 0
                            THEN RoundDiv(SumConfidence(sorted, 1), Len(sorted)) ELSE 0
       IN  /\ parsed' = sorted
           /\ result' =
                [transactions |->
                    [k \in 1..Len(sorted) |->
                        [date |-> sorted[k].tx.date, description |-> sorted[k].tx.description,
                         payment |-> sorted[k].tx.payment, receipt |-> sorted[k].tx.receipt,
                         balance |-> sorted[k].tx.balance, rawLine |-> sorted[k].tx.rawLine]],
                 skipped |-> skipped,
                 metadata |->
                    [totalLines |-> Len(normalized),
                     candidateLines |-> Len(likelyCandidates),
                     parsedTransactions |-> Len(sorted),
                     skippedLines |-> Len(skipped),
                     avgConfidence |-> avgConfidence,
                     parseDate |-> formatToISO(today.year, today.month, today.day)]]
    /\ pc' = "done"
    /\ UNCHANGED << extraction, previous, text, options, today, opts, normalized, likelyCandidates, idx,
                    transaction, skipped >>

Next == Normalize \/ Detect \/ SkipUnparsed \/ Accept \/ Reject \/ Finish

Spec == Init /\ [][Next]_vars


(***************************************************************************)
(* Properties of parseTransactions                                         *)
(***************************************************************************)
\* parseLine's result for candidate k of the call
ParsedOf(k) ==
    parseLine_(likelyCandidates[k].line, likelyCandidates[k].lineNumber, opts, today)

\* the text is an ISO date of the calendar
ValidDateText(dateStr) == Test(IsoShape, FALSE, dateStr) /\ DateOfISO(dateStr).some

\* C1: whatever minConfidence is (absent, negative, high), every returned
\* transaction has a valid date and a payment or a receipt, and every scored
\* line whose hasValidDate or hasAmount factor is false is in skipped and
\* not among the accepted transactions.
CriticalFactorGate ==
    pc = "done" =>
        /\ \A k \in 1..Len(result.transactions) :
              /\ ValidDateText(result.transactions[k].date)
              /\ Truthy(result.transactions[k].payment) \/ Truthy(result.transactions[k].receipt)
        /\ \A k \in 1..Len(likelyCandidates) :
              (/\ ParsedOf(k) # None
               /\ ~(ParsedOf(k).factors.hasValidDate /\ ParsedOf(k).factors.hasAmount))
              => /\ \E j \in 1..Len(skipped) :
                      skipped[j].lineNumber = likelyCandidates[k].lineNumber
                 /\ \A j \in 1..Len(parsed) :
                      parsed[j].lineNumber # likelyCandidates[k].lineNumber

\* a line scored at or above minConfidence, without an amount, was skipped
GateRejectsAboveThreshold ==
    /\ pc = "done"
    /\ \E k \in 1..Len(likelyCandidates) :
          /\ ParsedOf(k) # None
          /\ ParsedOf(k).confidence >= opts.minConfidence
          /\ ~ParsedOf(k).factors.hasAmount
          /\ \E j \in 1..Len(skipped) : skipped[j].lineNumber = likelyCandidates[k].lineNumber

\* C2: the returned transactions are in ascending date order: each date is
\* at most the next one.
DateAscending ==
    pc = "done" =>
        \A k \in 1..(Len(result.transactions) - 1) :
            DateOfISO(result.transactions[k].date).v
                <= DateOfISO(result.transactions[k + 1].date).v

\* the sort moved a later line in front of an earlier one
SortReorders ==
    /\ pc = "done"
    /\ \E k \in 1..(Len(parsed) - 1) :
          /\ parsed[k].lineNumber > parsed[k + 1].lineNumber
          /\ parsed[k].tx.date # parsed[k + 1].tx.date

\* C3: the sort is stable: two returned transactions of the same date are in
\* the order of their candidate line numbers, and the returned list is the
\* sorted list of accepted transactions.
StableSort ==
    pc = "done" =>
        /\ \A i, j \in 1..Len(parsed) :
              (i < j /\ parsed[i].tx.date = parsed[j].tx.date)
              => parsed[i].lineNumber < parsed[j].lineNumber
        /\ Len(result.transactions) = Len(parsed)
        /\ \A k \in 1..Len(parsed) :
              /\ result.transactions[k].rawLine = parsed[k].tx.rawLine
              /\ result.transactions[k].date = parsed[k].tx.date

\* two different lines of one date were both accepted
SameDateTie ==
    /\ pc = "done"
    /\ \E i, j \in 1..Len(parsed) :
          /\ i < j
          /\ parsed[i].tx.date = parsed[j].tx.date
          /\ parsed[i].tx.rawLine # parsed[j].tx.rawLine

\* the sum of the weights 30, 25, 15, 10, 10, 10 of the factors that are true
WeightSum(f) ==
    (IF f.hasValidDate THEN 30 ELSE 0) + (IF f.hasAmount THEN 25 ELSE 0)
    + (IF f.hasDescription THEN 15 ELSE 0) + (IF f.hasBalance THEN 10 ELSE 0)
    + (IF f.amountFormatValid THEN 10 ELSE 0) + (IF f.dateInReasonableRange THEN 10 ELSE 0)

FactorSets ==
    [hasValidDate : BOOLEAN, hasAmount : BOOLEAN, hasDescription : BOOLEAN,
     hasBalance : BOOLEAN, amountFormatValid : BOOLEAN, dateInReasonableRange : BOOLEAN]

ScoreOfEveryFactorSet ==
    \A f \in FactorSets :
        /\ calculateConfidenceScore(f) = WeightSum(f)
        /\ calculateConfidenceScore(f) >= 0 /\ calculateConfidenceScore(f) <= 100

\* C4: the confidence of every scored transaction is the sum of the weights
\* 30/25/15/10/10/10 of its true factors, hence between 0 and 100; so is the
\* score of every combination of factors.
ConfidenceIsWeightSum ==
    /\ ScoreOfEveryFactorSet
    /\ transaction # None =>
          /\ transaction.confidence = WeightSum(transaction.factors)
          /\ transaction.confidence >= 0 /\ transaction.confidence <= 100
    /\ \A k \in 1..Len(parsed) : parsed[k].tx.confidence = WeightSum(parsed[k].tx.factors)

\* a transaction was scored with a balance and without a description
ScoredWithBalance ==
    /\ transaction # None
    /\ transaction.factors.hasBalance
    /\ ~transaction.factors.hasDescription
    /\ transaction.confidence = 85

\* C5: after the call every normalized line is in exactly one class: not a
\* candidate (in neither list), accepted (one transaction, whose rawLine is
\* the line) or skipped (one SkippedLine with a reason); and the metadata
\* counts are the lengths of the lists.
TerminalClasses ==
    pc = "done" =>
        /\ \A n \in 1..Len(normalized) :
              LET accepted == { j \in 1..Len(parsed) : parsed[j].lineNumber = n }
                  skips == { j \in 1..Len(skipped) : skipped[j].lineNumber = n }
              IN  /\ IF detectCandidate_(normalized[n], n - 1).likelyTransaction
                     THEN Cardinality(accepted) + Cardinality(skips) = 1
                     ELSE accepted = {} /\ skips = {}
                  /\ \A j \in accepted :
                        /\ parsed[j].tx.rawLine = normalized[n]
                        /\ result.transactions[j].rawLine = normalized[n]
                  /\ \A j \in skips :
                        skipped[j].line = normalized[n] /\ skipped[j].reason # ""
        /\ \A j \in 1..Len(parsed) : parsed[j].lineNumber \in 1..Len(normalized)
        /\ \A j \in 1..Len(skipped) : skipped[j].lineNumber \in 1..Len(normalized)
        /\ Len(result.transactions) = Len(parsed)
        /\ result.skipped = skipped
        /\ result.metadata.parsedTransactions = Len(result.transactions)
        /\ result.metadata.skippedLines = Len(result.skipped)
        /\ result.metadata.candidateLines
              = result.metadata.parsedTransactions + result.metadata.skippedLines
        /\ result.metadata.totalLines >= result.metadata.candidateLines

\* of two normalized lines, one was no candidate and the other was accepted
OneOutsideOneAccepted ==
    /\ pc = "done"
    /\ result.metadata.totalLines = 2
    /\ result.metadata.candidateLines = 1
    /\ result.metadata.parsedTransactions = 1


Scenario1 == "15/01/2024 Grocery Store -125.50 2450.75"
Scenario2 == "17/11/25 Cash advance 432572******5281 6,000.00 6,063.00 Cr"
DefaultOptions == [minConfidence |-> None, dateFormat |-> None, strict |-> None]

\* C6: with default options the line "15/01/2024 Grocery Store -125.50
\* 2450.75" is accepted as one transaction with date 2024-01-15, a
\* description containing "Grocery Store", payment 125.50, balance 2450.75
\* and a confidence of at least 80.
Scenario1Accepted ==
    (pc = "done" /\ text = Scenario1 /\ options = DefaultOptions) =>
        /\ Len(parsed) = 1
        /\ Len(result.transactions) = 1
        /\ result.transactions[1].date = "2024-01-15"
        /\ Includes(result.transactions[1].description, "Grocery Store")
        /\ result.transactions[1].payment = Some(12550)
        /\ result.transactions[1].balance = Some(245075)
        /\ parsed[1].tx.confidence >= 80

AmountValues(amounts) == { amounts[k].value : k \in 1..Len(amounts) }
Scenario2Amounts == AmountValues(extractAmounts(Scenario2))

\* C7: for the line "17/11/25 Cash advance 432572******5281 6,000.00
\* 6,063.00 Cr" amount extraction selects only 6000.00 and 6063.00, never
\* the digits of the masked card number; 6000.00 becomes the debit and
\* 6063.00 the balance.
Scenario2RightEdge ==
    (transaction # None /\ transaction.rawLine = Scenario2) =>
        /\ Scenario2Amounts = {600000, 606300}
        /\ transaction.payment = Some(600000)
        /\ transaction.receipt = None
        /\ transaction.balance = Some(606300)

\* for each line, date preference and day of the call: whether extractDate
\* extracts no date
NoDateTable ==
    { << key, extractDate(key[1], key[2], key[3]) = None >> :
        key \in NormLineSet \X BOOLEAN \X Todays }
NoDate(key) == Lookup(NoDateTable, key)

\* for each line: whether no transaction amount is classified in it
NoAmountTable ==
    { << line, classifyAmounts(extractAmounts(line)).transactionAmount = None >> :
        line \in NormLineSet }
NoAmount(line) == Lookup(NoAmountTable, line)

\* for each line: whether extractAmounts finds an amount in it
SomeAmountTable == { << line, extractAmounts(line) # << >> >> : line \in NormLineSet }

KeyOf(k) == << likelyCandidates[k].line, opts.dateFormat # "MM/DD/YYYY", today >>

SkipsOf(k) == { j \in 1..Len(skipped) : skipped[j].lineNumber = likelyCandidates[k].lineNumber }
AcceptsOf(k) == { j \in 1..Len(parsed) : parsed[j].lineNumber = likelyCandidates[k].lineNumber }

\* C8: a candidate line from which no date can be extracted is never
\* accepted, under any options: it is recorded once in skipped with
\* confidence 0 and the reason "Failed to extract required fields", which
\* names no field.
NoDateSkipped ==
    pc = "done" =>
        \A k \in 1..Len(likelyCandidates) :
            NoDate(KeyOf(k)) =>
                /\ AcceptsOf(k) = {}
                /\ Cardinality(SkipsOf(k)) = 1
                /\ \A j \in SkipsOf(k) :
                      /\ skipped[j].confidence = 0
                      /\ skipped[j].reason = "Failed to extract required fields"
                      /\ ~Includes(toLowerCase(skipped[j].reason), "date")

\* a candidate line with an amount and without a date was skipped under a
\* negative minConfidence
NoDateLineSkipped ==
    /\ pc = "done"
    /\ opts.minConfidence < 0
    /\ \E k \in 1..Len(likelyCandidates) :
          /\ NoDate(KeyOf(k))
          /\ Lookup(SomeAmountTable, likelyCandidates[k].line)
          /\ SkipsOf(k) # {}

\* C8 as stated: the reason of the skipped line cites the missing date
NoDateReasonCitesDate ==
    pc = "done" =>
        \A k \in 1..Len(likelyCandidates) :
            NoDate(KeyOf(k)) =>
                /\ AcceptsOf(k) = {}
                /\ \E j \in SkipsOf(k) :
                      /\ skipped[j].confidence = 0
                      /\ Includes(toLowerCase(skipped[j].reason), "date")

\* C9: a candidate line that yields no date, or a date and no transaction
\* amount, gets exactly one SkippedLine with the reason "Failed to extract
\* required fields" and confidence 0 and no transaction, and the loop goes
\* on: every candidate before the current one has been recorded once.
ExtractionFailureSkipped ==
    /\ pc = "loop" => Len(parsed) + Len(skipped) = idx - 1
    /\ pc \in {"loop", "done"} =>
          \A k \in 1..Len(likelyCandidates) :
              (k < idx /\ (NoDate(KeyOf(k)) \/ NoAmount(likelyCandidates[k].line))) =>
                  /\ AcceptsOf(k) = {}
                  /\ Cardinality(SkipsOf(k)) = 1
                  /\ \A j \in SkipsOf(k) :
                        /\ skipped[j].reason = "Failed to extract required fields"
                        /\ skipped[j].confidence = 0
                        /\ skipped[j].line = likelyCandidates[k].line
    /\ pc = "done" => Len(parsed) + Len(skipped) = Len(likelyCandidates)

\* a dated line without an amount was skipped and the next candidate was
\* accepted after it
SkippedThenAccepted ==
    /\ pc = "done"
    /\ Len(likelyCandidates) = 2
    /\ ~NoDate(KeyOf(1)) /\ NoAmount(likelyCandidates[1].line)
    /\ SkipsOf(1) # {}
    /\ AcceptsOf(2) # {}

\* the issue text of each factor that has one
IssueTexts ==
    [hasValidDate |-> "Invalid or missing date",
     hasAmount |-> "No transaction amount found",
     hasDescription |-> "Missing or invalid description",
     dateInReasonableRange |-> "Date is outside reasonable range",
     amountFormatValid |-> "Amount format is invalid"]

IssueSet(t) == { t.issues[n] : n \in 1..Len(t.issues) }

\* the candidates whose extraction succeeded and that were rejected
Rejected == { k \in 1..Len(likelyCandidates) : k < idx /\ ParsedOf(k) # None /\ AcceptsOf(k) = {} }

\* C10: when extraction succeeds and the line is rejected, the SkippedLine's
\* confidence is the computed score and its reason lists the issues; there
\* is exactly one issue for each false factor other than hasBalance, which
\* has none.
RejectionListsIssues ==
    pc \in {"loop", "done"} =>
        \A k \in Rejected :
            /\ Cardinality(SkipsOf(k)) = 1
            /\ \A j \in SkipsOf(k) :
                  /\ skipped[j].confidence = ParsedOf(k).confidence
                  /\ skipped[j].confidence = WeightSum(ParsedOf(k).factors)
                  /\ \A name \in DOMAIN IssueTexts :
                        ~ParsedOf(k).factors[name] <=> Includes(skipped[j].reason, IssueTexts[name])
            /\ \A name \in DOMAIN IssueTexts :
                  ~ParsedOf(k).factors[name] <=> IssueTexts[name] \in IssueSet(ParsedOf(k))
            /\ Len(ParsedOf(k).issues) = Cardinality(IssueSet(ParsedOf(k)))
            /\ IssueSet(ParsedOf(k)) \subseteq { IssueTexts[name] : name \in DOMAIN IssueTexts }

\* a line was rejected with a positive score for its missing description only
RejectedForDescription ==
    /\ pc = "done"
    /\ \E k \in Rejected :
          /\ ParsedOf(k).issues = << "Missing or invalid description" >>
          /\ \E j \in SkipsOf(k) : skipped[j].confidence = 85

FalseFactors(f) == { name \in DOMAIN f : ~f[name] }

\* C10 as stated: one issue for each of the six factors that is false, so
\* that the issues are empty only when no factor failed
IssuePerFalseFactor ==
    pc \in {"loop", "done"} =>
        \A k \in Rejected :
            /\ Len(ParsedOf(k).issues) = Cardinality(FalseFactors(ParsedOf(k).factors))
            /\ ParsedOf(k).issues = << >> => FalseFactors(ParsedOf(k).factors) = {}


(***************************************************************************)
(* extractDate on its own: a line holding dates, the options of the call   *)
(* and the day it runs; one call of extractDate with the preference        *)
(* parseLine derives from the options.                                     *)
(***************************************************************************)
DateParts == {1, 3, 4, 12, 13, 31}
DateSeparators == {"/", "."}

\* the year as written, and the year it stands for
YearTexts == [y \in {"2024", "24", "99"} |-> CASE y = "99" -> 1999 [] OTHER -> 2024]

NumericDate(a, b, y, sep) == Pad2(a) \o sep \o Pad2(b) \o sep \o y

NumericDates ==
    { NumericDate(a, b, y, sep) :
        a \in DateParts, b \in DateParts, y \in DOMAIN YearTexts, sep \in DateSeparators }

\* lines on which several patterns match, or match without a valid date
PriorityLines ==
    { "2024-01-15 paid 16/02/2024", "16/02/2024 after 2024-01-15", "2024-13-45 paid 15/01/2024",
      "31/02/2024 then 15 Jan 2024", "15 Jan 2024 and Feb 20, 2024", "Feb 20, 2024 and 15/01/24",
      "15/01/24 before 16/02/2024", "30-Feb-2024 Mar 3, 2024", "31/02/2024 Feb 30, 2024 15/01/24",
      "2024-13-45 31/02/2024 30 Feb 2024 Feb 30 2024 15/01/24",
      "15/01/24 only", "no date here", "", "2024-13-45", "31/02/24 none", "15/01/1985 old",
      "15/01/2030 far", "2024-02-30 and 31/04/24" }

\* dates written without leading zeros, days at the end of February, and
\* years at the edges of the range accepted
CalendarLines ==
    { "5/1/2024", "3-Feb-2024", "Mar 3 2024", "7.8.24", "2024-02-29", "2023-02-29",
      "29/02/2024", "29/02/2023", "30/02/2024", "30 Feb 2024", "Feb 29, 2023", "Feb 29, 2024",
      "31/04/2024", "31/12/1989", "1/1/1990", "1/1/2027", "1/1/2028", "2027-12-31",
      "2028-01-01", "0/5/2024", "5/0/2024", "32/1/2024", "2024-00-10", "2024-10-00" }

\* the 15th of January of every 2-digit year
TwoDigitYears == 0..99
ShortYearDate(yy) == "15/01/" \o Pad2(yy)
ShortYearLines == { ShortYearDate(yy) : yy \in TwoDigitYears }

DateInputs == NumericDates \cup PriorityLines \cup CalendarLines \cup ShortYearLines

DateOptionSets ==
    [ minConfidence : { None },
      dateFormat : { None, Some("auto"), Some("DD/MM/YYYY"), Some("MM/DD/YYYY") },
      strict : { None } ]

DateInit ==
    /\ text \in DateInputs
    /\ options \in DateOptionSets
    /\ today \in Todays
    /\ pc = "date"
    /\ opts = WithDefaults(options)
    /\ normalized = << >>
    /\ likelyCandidates = << >>
    /\ idx = 1
    /\ transaction = None
    /\ parsed = << >>
    /\ skipped = << >>
    /\ result = None
    /\ previous = None
    /\ extraction = None

\* const dateResult = extractDate(line, preferDDMM)
ExtractDateCall ==
    /\ pc = "date"
    /\ result' = extractDate(text, PreferDDMM(opts), today)
    /\ pc' = "dated"
    /\ UNCHANGED << extraction, previous, text, options, today, opts, normalized, likelyCandidates, idx,
                    transaction, parsed, skipped >>

DateNext == ExtractDateCall

DateSpec == DateInit /\ [][DateNext]_vars

\* the day exists in the month of the year
DayExists(year, month, day) ==
    /\ month >= 1 /\ month <= 12
    /\ day >= 1
    /\ day <= (CASE month = 2 -> (IF year % 4 = 0 THEN 29 ELSE 28)
                 [] month \in {4, 6, 9, 11} -> 30
                 [] OTHER -> 31)

DayFirstPreferred == opts.dateFormat \in {"DD/MM/YYYY", "auto"}

\* the date of A/B/Year by the rule: A is the day if A > 12, else B if B > 12,
\* else the preference decides
RuleDate(a, b, year, dayFirst) ==
    IF a > 12 THEN [year |-> year, month |-> b, day |-> a]
    ELSE IF b > 12 THEN [year |-> year, month |-> a, day |-> b]
    ELSE IF dayFirst THEN [year |-> year, month |-> b, day |-> a]
    ELSE [year |-> year, month |-> a, day |-> b]

ResultIsDate(d) ==
    IF DayExists(d.year, d.month, d.day)
    THEN result # None /\ result.value = formatToISO(d.year, d.month, d.day)
    ELSE result = None

\* C11: for a numeric date A/B/Year with a 4-digit or 2-digit year, A is the
\* day if A > 12, else B is the day if B > 12, else the preference decides:
\* day first for dateFormat 'DD/MM/YYYY' or 'auto' (the default), month
\* first for 'MM/DD/YYYY'; "03/04/2024" gives 2024-04-03 day first and
\* 2024-03-04 month first.
NumericDateRule ==
    pc = "dated" =>
        /\ \A a \in DateParts, b \in DateParts, y \in DOMAIN YearTexts, sep \in DateSeparators :
              text = NumericDate(a, b, y, sep)
              => ResultIsDate(RuleDate(a, b, YearTexts[y], DayFirstPreferred))
        /\ text = "03/04/2024" =>
              result # None /\ result.value = (IF opts.dateFormat = "MM/DD/YYYY"
                                               THEN "2024-03-04" ELSE "2024-04-03")

\* the ambiguous date read month first, on request
AmbiguousMonthFirst ==
    /\ pc = "dated"
    /\ text = "03/04/2024"
    /\ options.dateFormat = Some("MM/DD/YYYY")
    /\ result # None /\ result.value = "2024-03-04"


(***************************************************************************)
(* Two calls of parseTransactions on the same text and options: the second *)
(* call starts once the first has returned, on the same day or a later one *)
(***************************************************************************)
Earlier(d, e) == << d.year, d.month, d.day >> # << e.year, e.month, e.day >>
                 /\ DayNumber(d.year, d.month - 1, d.day) < DayNumber(e.year, e.month - 1, e.day)

RepeatInit ==
    /\ text \in RawLineSet
    /\ options \in OptionSets
    /\ today \in CallDays
    /\ pc = "start"
    /\ opts = None
    /\ normalized = << >>
    /\ likelyCandidates = << >>
    /\ idx = 1
    /\ transaction = None
    /\ parsed = << >>
    /\ skipped = << >>
    /\ result = None
    /\ previous = None
    /\ extraction = None

\* the caller keeps the result and calls again: every entity of the call is
\* created afresh, and new Date() is read again
CallAgain ==
    /\ pc = "done"
    /\ previous = None
    /\ previous' = result
    /\ today' \in { d \in CallDays : ~Earlier(d, today) }
    /\ pc' = "start"
    /\ opts' = None
    /\ normalized' = << >>
    /\ likelyCandidates' = << >>
    /\ idx' = 1
    /\ transaction' = None
    /\ parsed' = << >>
    /\ skipped' = << >>
    /\ result' = None
    /\ UNCHANGED << extraction, text, options >>

RepeatNext == Normalize \/ Detect \/ SkipUnparsed \/ Accept \/ Reject \/ Finish \/ CallAgain

RepeatSpec == RepeatInit /\ [][RepeatNext]_vars

\* a ParsingResult without the parseDate of its metadata
WithoutParseDate(r) ==
    [transactions |-> r.transactions,
     skipped |-> r.skipped,
     metadata |-> [totalLines |-> r.metadata.totalLines,
                   candidateLines |-> r.metadata.candidateLines,
                   parsedTransactions |-> r.metadata.parsedTransactions,
                   skippedLines |-> r.metadata.skippedLines,
                   avgConfidence |-> r.metadata.avgConfidence]]

\* C12: two calls on the same text and the same options return results that
\* are identical in transactions, skipped and every metadata field except
\* parseDate.
RepeatedCallSameResult ==
    (pc = "done" /\ previous # None) => WithoutParseDate(result) = WithoutParseDate(previous)


(***************************************************************************)
(* A call of parseTransactions, then a second call on the rawLine of one   *)
(* of the transactions the first call accepted, with the same options      *)
(***************************************************************************)
PairTexts ==
    { RawLines[4] \o "\n" \o RawLines[5],
      RawLines[10] \o "\n" \o RawLines[9],
      RawLines[5] \o "\n" \o RawLines[2],
      RawLines[7] \o "\n" \o RawLines[11] }

RoundTripInit ==
    /\ text \in RawLineSet \cup PairTexts
    /\ options \in OptionSets
    /\ today \in CallDays
    /\ pc = "start"
    /\ opts = None
    /\ normalized = << >>
    /\ likelyCandidates = << >>
    /\ idx = 1
    /\ transaction = None
    /\ parsed = << >>
    /\ skipped = << >>
    /\ result = None
    /\ previous = None
    /\ extraction = None

\* the caller keeps transaction k and the day of the call, and calls again
\* on the transaction's rawLine alone
ParseRawLine(k) ==
    /\ previous' = [transaction |-> result.transactions[k],
                    parseDate |-> result.metadata.parseDate]
    /\ text' = result.transactions[k].rawLine
    /\ today' \in { d \in CallDays : ~Earlier(d, today) }
    /\ pc' = "start"
    /\ opts' = None
    /\ normalized' = << >>
    /\ likelyCandidates' = << >>
    /\ idx' = 1
    /\ transaction' = None
    /\ parsed' = << >>
    /\ skipped' = << >>
    /\ result' = None
    /\ UNCHANGED << extraction, options >>

Reparse ==
    /\ pc = "done"
    /\ previous = None
    /\ \E k \in 1..Len(result.transactions) : ParseRawLine(k)

RoundTripNext == Normalize \/ Detect \/ SkipUnparsed \/ Accept \/ Reject \/ Finish \/ Reparse

RoundTripSpec == RoundTripInit /\ [][RoundTripNext]_vars

CanStep ==
    \/ pc = "start"
    \/ pc = "detect"
    \/ pc = "loop" /\ idx <= Len(likelyCandidates)
                   /\ (Parsed = None
                       \/ isValidTransaction(Parsed, opts.minConfidence)
                       \/ ~isValidTransaction(Parsed, opts.minConfidence))
    \/ pc = "loop" /\ idx > Len(likelyCandidates)

\* a step moves to the next layer, or to the next candidate of an unchanged
\* list, or returns
StepAdvances ==
    \/ pc = "start" /\ pc' = "detect"
    \/ pc = "detect" /\ pc' = "loop" /\ idx' = 1
    \/ pc = "loop" /\ pc' = "loop" /\ idx <= Len(likelyCandidates) /\ idx' = idx + 1
                   /\ likelyCandidates' = likelyCandidates
    \/ pc = "loop" /\ pc' = "done" /\ idx = Len(likelyCandidates) + 1

\* every line of the text is empty or the page marker
OnlyNoise(str) ==
    \A k \in 1..Len(SplitOn(str, "\n")) : SplitOn(str, "\n")[k] \in {"", "Page 2 of 5"}

IsParsingResult(r) ==
    /\ DOMAIN r = {"transactions", "skipped", "metadata"}
    /\ DOMAIN r.metadata = {"totalLines", "candidateLines", "parsedTransactions",
                            "skippedLines", "avgConfidence", "parseDate"}
    /\ r.metadata.parsedTransactions = Len(r.transactions)
    /\ r.metadata.skippedLines = Len(r.skipped)

EmptyResult(r) ==
    /\ r.transactions = << >>
    /\ r.skipped = << >>
    /\ r.metadata.totalLines = 0
    /\ r.metadata.candidateLines = 0
    /\ r.metadata.parsedTransactions = 0
    /\ r.metadata.skippedLines = 0
    /\ r.metadata.avgConfidence = 0

\* C14: for every input text the call completes with a ParsingResult, every
\* degraded line being a record of skipped; an empty or all-noise text gives
\* zero normalized lines and a result with no transactions, no skipped
\* lines, all counts 0 and avgConfidence 0.
AlwaysCompletes ==
    /\ [](pc # "done" => CanStep)
    /\ [][StepAdvances]_vars
    /\ [](pc = "done" =>
            /\ IsParsingResult(result)
            /\ Len(result.transactions) + Len(result.skipped) = Len(likelyCandidates)
            /\ OnlyNoise(text) => (normalized = << >> /\ EmptyResult(result)))

\* a text of two noise lines was parsed to the empty result
NoiseOnlyParsed ==
    /\ pc = "done"
    /\ text = "Page 2 of 5\nPage 2 of 5"
    /\ normalized = << >>
    /\ EmptyResult(result)


(***************************************************************************)
(* Layer 1 on its own: normalizeLines on texts of layout lines             *)
(***************************************************************************)
LayoutInit ==
    /\ text \in LayoutTexts
    /\ options = DefaultOptions
    /\ today \in Todays
    /\ pc = "start"
    /\ opts = None
    /\ normalized = << >>
    /\ likelyCandidates = << >>
    /\ idx = 1
    /\ transaction = None
    /\ parsed = << >>
    /\ skipped = << >>
    /\ result = None
    /\ previous = None
    /\ extraction = None

LayoutNext == Normalize

LayoutSpec == LayoutInit /\ [][LayoutNext]_vars

\* for each normalised line: whether it bears one of the noise signatures
SignatureTable ==
    { << line, \E k \in 1..Len(NOISE_PATTERNS) :
                  Test(NOISE_PATTERNS[k].pattern, NOISE_PATTERNS[k].ic, line) >> :
        line \in AllNormLineSet }

\* one line of each noise signature that is long enough to be kept for its
\* length
SignatureExamples ==
    { "Page 2 of 5", "page 12345", "12 of 3456", "Statement Period: 01/01/25 - 31/01/25",
      "Account Number: 123456", "Date Description Amount", "Amount Balance",
      "THIS STATEMENT IS ISSUED SUBJECT TO THE TERMS AND CONDITIONS",
      "----------", "Continued on next page" }

\* C15: every line normalizeLines returns has between 10 and 300 characters
\* and bears none of the noise signatures; a noise line such as
\* "Page 2 of 5" is not among the normalized lines.
NormalizedLinesClean ==
    pc = "detect" =>
        \A k \in 1..Len(normalized) :
            /\ Len(normalized[k]) >= 10
            /\ Len(normalized[k]) <= 300
            /\ ~Lookup(SignatureTable, normalized[k])
            /\ normalized[k] \notin SignatureExamples

\* of a page marker and a line of ten characters, the second alone is kept
PageMarkerDropped ==
    /\ pc = "detect"
    /\ text = "Fee 112.50\nPage 2 of 5"
    /\ normalized = << "Fee 112.50" >>

(***************************************************************************)
(* The amounts parseLine hands to classifyAmounts                          *)
(***************************************************************************)
\* for each line: the amounts extractAmounts returns for it
AmountsTable == { << line, extractAmounts(line) >> : line \in NormLineSet }
AmountsOf(line) == Lookup(AmountsTable, line)

\* the candidates parseLine has been called on and found a date in
Dated(k) == k < idx /\ ~NoDate(KeyOf(k))

\* the digit groups of the masked card number of the second scenario
MaskedDigits == {43257200, 528100}

\* C16: the amounts parseLine hands to classifyAmounts are at most the last
\* three matches of the line; the digit groups of a masked card number,
\* which lie before them, are not among the amounts.
RightEdgeSelection ==
    \A k \in 1..Len(likelyCandidates) :
        Dated(k) =>
            /\ Len(AmountsOf(likelyCandidates[k].line)) <= 3
            /\ likelyCandidates[k].line = Scenario2 =>
                   AmountValues(AmountsOf(likelyCandidates[k].line)) \cap MaskedDigits = {}

(***************************************************************************)
(* The pipeline on single lines with signs and keywords                    *)
(***************************************************************************)
SignInit ==
    /\ text \in RawLineSet
    /\ options \in OptionSets
    /\ today \in Todays
    /\ pc = "start"
    /\ opts = None
    /\ normalized = << >>
    /\ likelyCandidates = << >>
    /\ idx = 1
    /\ transaction = None
    /\ parsed = << >>
    /\ skipped = << >>
    /\ result = None
    /\ previous = None
    /\ extraction = None

SignSpec == SignInit /\ [][Next]_vars

\* the amount classifyAmounts chooses for a line
ChosenOf(line) == classifyAmounts(AmountsOf(line)).transactionAmount

\* the text of the amount begins with "(" or "-" or ends with DR; ends with CR
DebitMarked(original) ==
    \/ SubSeq(original, 1, 1) \in {"(", "-"}
    \/ Test(EndsWithDR, TRUE, original)
CreditMarked(original) == Test(EndsWithCR, TRUE, original)

PaymentOnly(t, amount) == t.payment = Some(amount.value) /\ t.receipt = None
ReceiptOnly(t, amount) == t.receipt = Some(amount.value) /\ t.payment = None

\* the side of t is the side the flags of the amount give
FollowsFlags(t, amount) ==
    /\ t.payment = IF amount.isDebit THEN Some(amount.value) ELSE None
    /\ t.receipt = IF amount.isCredit THEN Some(amount.value) ELSE None

\* the side of t is the side the keywords of the line give
FollowsKeywords(t, amount) ==
    IF HasKeyword(DEBIT_KEYWORDS, t.rawLine) THEN PaymentOnly(t, amount)
    ELSE IF HasKeyword(CREDIT_KEYWORDS, t.rawLine) THEN ReceiptOnly(t, amount)
    ELSE t.payment = None /\ t.receipt = None

SideResolved(t, amount) ==
    /\ DebitMarked(amount.original) => PaymentOnly(t, amount)
    /\ CreditMarked(amount.original) => ReceiptOnly(t, amount)
    /\ (amount.isDebit \/ amount.isCredit) => FollowsFlags(t, amount)
    /\ (~amount.isDebit /\ ~amount.isCredit) => FollowsKeywords(t, amount)

\* C17: when the amount chosen for a transaction carries a marker of its own
\* or has isDebit or isCredit set, the payment/receipt side follows it
\* whatever keywords the line contains; the keywords decide the side only
\* when isDebit and isCredit are both false.
SignResolution == transaction # None => SideResolved(transaction, ChosenOf(transaction.rawLine))

\* a line with the keyword DEPOSIT whose amount has a minus sign is a payment
MarkerBeatsKeyword ==
    /\ transaction # None
    /\ transaction.rawLine = "03/04/25 DEPOSIT reversal -75.00"
    /\ ChosenOf(transaction.rawLine).isDebit
    /\ transaction.payment = Some(7500)
    /\ transaction.receipt = None

(***************************************************************************)
(* Layer 3d: balance extractor, and where the balance of a transaction     *)
(* comes from                                                              *)
(***************************************************************************)
\* /(\d{1,3}(?:,\d{3})*(?:\.\d{2})?)(?:\s|$)/g
BalanceTokenPattern == Cat(<< Grp(1, Numeral), Alt(<< S, EOL >>) >>)

\* transactionAmountText.replace(/[^0-9.,]/g, '')
NumericText(str) == ReplaceAll(NCls(DigitSet \cup {".", ","}), FALSE, str, "")

MaxBalance == 100000000

\* value > 100000000, for a value in hundredths
AboveMaxBalance(value) ==
    \/ value \div 100 > MaxBalance
    \/ value \div 100 = MaxBalance /\ value % 100 > 0

\* the last match as a balance, if it passes the sanity range
BalanceOfMatch(line, lastMatch, value, count) ==
    IF value < 0 \/ AboveMaxBalance(value) THEN None
    ELSE [value |-> value,
          original |-> Trim(Whole(line, lastMatch)),
          confidence |-> IF count > 1 THEN 80 ELSE 60]

BalanceOfMatches(line, matches, transactionAmountText) ==
    IF Len(matches) = 0 THEN None
    ELSE IF /\ Len(matches) = 1
            /\ transactionAmountText # ""
            /\ Includes(Whole(line, matches[1]), NumericText(transactionAmountText))
         THEN None
    ELSE BalanceOfMatch(line, matches[Len(matches)],
                        parseAmount(Group(line, matches[Len(matches)], 1)), Len(matches))

extractBalance(line, transactionAmountText) ==
    BalanceOfMatches(line, MatchAll(BalanceTokenPattern, FALSE, line), transactionAmountText)

\* for each line with a transaction amount: what extractBalance returns for
\* the line and the text of that amount
ExtractBalanceTable ==
    { << line, IF ChosenOf(line) = None THEN None
               ELSE extractBalance(line, ChosenOf(line).original) >> :
        line \in NormLineSet }

\* the balance the classifier gives, else the one the balance extractor gives
ClassifierThenExtractor(classified, extracted) ==
    IF classified # None THEN Some(classified.value)
    ELSE IF extracted # None THEN Some(extracted.value)
    ELSE None

\* C18: the balance of a parsed transaction is the balance classifyAmounts
\* produced whenever it produced one; it is the result of extractBalance
\* when the classifier produced none, and there is no balance only when
\* both produce none.
BalanceFromClassifier ==
    transaction # None =>
        transaction.balance =
            ClassifierThenExtractor(classifyAmounts(AmountsOf(transaction.rawLine)).balance,
                                    Lookup(ExtractBalanceTable, transaction.rawLine))

(***************************************************************************)
(* classifyAmounts on its own, on the amounts of lines of amounts          *)
(***************************************************************************)
ClassifyInit ==
    /\ text \in AmountLines
    /\ options = DefaultOptions
    /\ today \in Todays
    /\ pc = "classify"
    /\ opts = None
    /\ normalized = << >>
    /\ likelyCandidates = << >>
    /\ idx = 1
    /\ transaction = None
    /\ parsed = << >>
    /\ skipped = << >>
    /\ result = None
    /\ previous = None
    /\ extraction = None

ClassifyCall ==
    /\ pc = "classify"
    /\ result' = classifyAmounts(extractAmounts(text))
    /\ pc' = "classified"
    /\ UNCHANGED << extraction, previous, text, options, today, opts, normalized, likelyCandidates, idx, transaction, parsed, skipped >>

ClassifyNext == ClassifyCall

ClassifySpec == ClassifyInit /\ [][ClassifyNext]_vars

\* amounts[j] is the largest of the amounts before the last one, and the
\* earliest of them if several are as large
LargestBeforeLast(amounts, j) ==
    /\ j \in 1..(Len(amounts) - 1)
    /\ \A i \in 1..(Len(amounts) - 1) :
           /\ amounts[i].value <= amounts[j].value
           /\ i < j => amounts[i].value < amounts[j].value

\* what classifyAmounts returns for none, one or two amounts
UpToTwoClassified(amounts, classified) ==
    /\ Len(amounts) = 0 => classified = [transactionAmount |-> None, balance |-> None]
    /\ Len(amounts) = 1 => classified = [transactionAmount |-> amounts[1], balance |-> None]
    /\ Len(amounts) = 2 => classified = [transactionAmount |-> amounts[1], balance |-> amounts[2]]

LargestClassified(amounts, classified) ==
    /\ UpToTwoClassified(amounts, classified)
    /\ Len(amounts) >= 3 =>
           /\ classified.balance = amounts[Len(amounts)]
           /\ \E j \in 1..(Len(amounts) - 1) :
                  LargestBeforeLast(amounts, j) /\ classified.transactionAmount = amounts[j]

FirstClassified(amounts, classified) ==
    /\ UpToTwoClassified(amounts, classified)
    /\ Len(amounts) >= 3 =>
           /\ classified.balance = amounts[Len(amounts)]
           /\ classified.transactionAmount = amounts[1]

\* C19 as stated: with no amount both transactionAmount and balance are
\* null, with one amount it is the transactionAmount and balance is null,
\* with two or more amounts the first is the transactionAmount and the last
\* is the balance.
FirstIsTransaction == pc = "classified" => FirstClassified(extractAmounts(text), result)

\* C19: with no amount both transactionAmount and balance are null, with one
\* amount it is the transactionAmount and balance is null, with two amounts
\* the first is the transactionAmount and the last is the balance; with three
\* or more amounts the last is the balance and the transactionAmount is the
\* largest of the others, the earliest of them if several are as large.
LargestIsTransaction == pc = "classified" => LargestClassified(extractAmounts(text), result)

\* of the amounts 100.00, 500.00 and 900.00 the second is the transaction
\* amount
MiddleAmountChosen ==
    /\ pc = "classified"
    /\ text = "Pay 100.00 500.00 900.00"
    /\ Len(extractAmounts(text)) = 3
    /\ result.transactionAmount.value = 50000
    /\ result.balance.value = 90000

(***************************************************************************)
(* The order in which extractDate tries its patterns                       *)
(***************************************************************************)
DateFormatsInOrder == << "YYYY-MM-DD", "DD/MM/YYYY", "DD MMM YYYY", "MMM DD YYYY", "DD/MM/YY" >>

\* the date pattern k reads in the line, None if it does not match or its
\* parser returns no date
ReadBy(k, line, match, preferDDMM) ==
    IF ~match.found THEN None
    ELSE DateParser(DATE_EXTRACTION_PATTERNS[k].format, line, match, preferDDMM)

ValidRead(ymd, nowDay) == ymd # None /\ isValidDate(ymd.year, ymd.month, ymd.day, nowDay)

\* pattern k matches the text and the date it reads is valid
Succeeds(k) ==
    ValidRead(ReadBy(k, text, Match(DATE_EXTRACTION_PATTERNS[k].pattern,
                                    DATE_EXTRACTION_PATTERNS[k].ic, text), PreferDDMM(opts)), today)

\* the result is what pattern k reads in the text
ResultOf(k, ymd, match) ==
    /\ result # None
    /\ result.format = DateFormatsInOrder[k]
    /\ result.value = formatToISO(ymd.year, ymd.month, ymd.day)
    /\ result.original = Whole(text, match)

ResultOfPattern(k, match) == ResultOf(k, ReadBy(k, text, match, PreferDDMM(opts)), match)

\* C20: extractDate tries its patterns in the order ISO, numeric with 4-digit
\* year, day month-name year, month-name day year, numeric with 2-digit
\* year; it returns what the first pattern that matches and reads a valid
\* date gives, passing over a pattern that matches with an invalid date and
\* never using a later pattern when an earlier one succeeds, and it returns
\* null only when no pattern matches and validates.
FirstValidPattern ==
    pc = "dated" =>
        /\ \A k \in 1..Len(DATE_EXTRACTION_PATTERNS) :
               DATE_EXTRACTION_PATTERNS[k].format = DateFormatsInOrder[k]
        /\ \A k \in 1..Len(DATE_EXTRACTION_PATTERNS) :
               (Succeeds(k) /\ \A j \in 1..(k - 1) : ~Succeeds(j))
               => ResultOfPattern(k, Match(DATE_EXTRACTION_PATTERNS[k].pattern,
                                           DATE_EXTRACTION_PATTERNS[k].ic, text))
        /\ result = None <=> \A k \in 1..Len(DATE_EXTRACTION_PATTERNS) : ~Succeeds(k)

\* the ISO pattern matches "2024-13-45", which is no date: the numeric date
\* after it is returned
InvalidIsoPassedOver ==
    /\ pc = "dated"
    /\ text = "2024-13-45 paid 15/01/2024"
    /\ result # None
    /\ result.format = "DD/MM/YYYY"
    /\ result.value = "2024-01-15"

(***************************************************************************)
(* The dates extractDate returns                                           *)
(***************************************************************************)
\* the text is four digits, two digits and two digits joined by hyphens
PaddedIso(str) ==
    /\ Len(str) = 10
    /\ Ch(str, 5) = "-" /\ Ch(str, 8) = "-"
    /\ \A k \in {1, 2, 3, 4, 6, 7, 9, 10} : Ch(str, k) \in DigitSet

YearOfIso(str) == parseInt(SubSeq(str, 1, 4))
MonthOfIso(str) == parseInt(SubSeq(str, 6, 7))
DayOfIso(str) == parseInt(SubSeq(str, 9, 10))

\* the value names a day of the calendar in a year from 1990 to next year
RealDateInRange(str) ==
    /\ PaddedIso(str)
    /\ YearOfIso(str) >= MinYear /\ YearOfIso(str) <= today.year + 1
    /\ DayExists(YearOfIso(str), MonthOfIso(str), DayOfIso(str))

\* C21: every ExtractedDate extractDate returns denotes a real calendar date
\* (month in 1..12, a day that exists in that month and year, so day 30 of
\* February is rejected) with its year in [1990, current year + 1], and its
\* value is the zero-padded ISO form YYYY-MM-DD whatever the input format.
ReturnedDateIsReal ==
    pc = "dated" =>
        /\ result # None => RealDateInRange(result.value)
        /\ text \in {"30/02/2024", "30 Feb 2024", "2023-02-29", "31/12/1989", "1/1/2028"}
               => result = None
        /\ text = "3-Feb-2024" => result # None /\ result.value = "2024-02-03"
        /\ text = "Mar 3 2024" => result # None /\ result.value = "2024-03-03"
        /\ text = "7.8.24" =>
               result # None /\ result.value = (IF DayFirstPreferred THEN "2024-08-07"
                                                ELSE "2024-07-08")

\* a day and a month written with one digit each come back padded
UnpaddedDatePadded ==
    /\ pc = "dated"
    /\ text = "5/1/2024"
    /\ options.dateFormat = None
    /\ result # None
    /\ result.format = "DD/MM/YYYY"
    /\ result.value = "2024-01-05"

(***************************************************************************)
(* 2-digit years                                                           *)
(***************************************************************************)
\* YY below 50 stands for 20YY, YY from 50 on for 19YY
CenturyOf(yy) == IF yy < 50 THEN 2000 + yy ELSE 1900 + yy

ShortYearReadAs(year) ==
    /\ result # None
    /\ result.format = "DD/MM/YY"
    /\ result.value = formatToISO(year, 1, 15)

AmountsInit ==
    /\ text \in MarkedAmountLines
    /\ options = DefaultOptions
    /\ today \in Todays
    /\ pc = "amounts"
    /\ opts = None
    /\ normalized = << >>
    /\ likelyCandidates = << >>
    /\ idx = 1
    /\ transaction = None
    /\ parsed = << >>
    /\ skipped = << >>
    /\ result = None
    /\ previous = None
    /\ extraction = None

\* const amounts = extractAmounts(line)
ExtractAmountsCall ==
    /\ pc = "amounts"
    /\ result' = extractAmounts(text)
    /\ pc' = "extracted"
    /\ UNCHANGED << extraction, previous, text, options, today, opts, normalized, likelyCandidates, idx, transaction, parsed, skipped >>

AmountsNext == ExtractAmountsCall

AmountsSpec == AmountsInit /\ [][AmountsNext]_vars

\* two of the amounts returned come from matches a and b of the line whose
\* values differ by less than 0.01 and whose positions are less than 20
\* characters apart
NearDuplicates(amounts, matches) ==
    \E i \in 1..Len(amounts), j \in 1..Len(amounts), a \in 1..Len(matches), b \in 1..Len(matches) :
        /\ i < j /\ a < b
        /\ amounts[i] = WithoutPosition(matches[a])
        /\ amounts[j] = WithoutPosition(matches[b])
        /\ Abs(matches[a].value - matches[b].value) < 1
        /\ Abs(matches[a].position - matches[b].position) < DuplicateDistance

\* C23: the result of extractAmounts never contains two amounts whose values
\* differ by less than 0.01 and whose match positions in the line are fewer
\* than 20 characters apart: the same number matched by two patterns is
\* reported once.
NoNearDuplicates ==
    pc = "extracted" => ~NearDuplicates(result, SortedResults(text))

(***************************************************************************)
(* The text source: normalize-text and extractPdfText.  A call is awaited  *)
(* at file.arrayBuffer(), getDocument, getMetadata, getPage and            *)
(* getTextContent; what lies between two awaits runs without interruption, *)
(* and the controller of the AbortSignal may abort while the call waits.   *)
(***************************************************************************)
\* text.replace(/\r\n/g, '\n').replace(/\r/g, '\n')
normalizeLineBreaks(str) ==
    ReplaceAll(Lit("\r"), FALSE, ReplaceAll(Lit("\r\n"), FALSE, str, "\n"), "\n")

\* of the characters [\x00-\x08\x0B\x0C\x0E-\x1F\x7F] the form feed is the
\* one that can be written in a string here
ControlCharacters == Cls({ "\f" })

removeControlCharacters(str) == ReplaceAll(ControlCharacters, FALSE, str, "")

\* line.replace(/[ \t]+/g, ' ').trim()
NormalizedLine(line) == Trim(ReplaceAll(Plus(Cls({" ", "\t"})), FALSE, line, " "))

normalizeWhitespace(str) ==
    LET lines == SplitOn(str, "\n")
        normalizedLines == [k \in 1..Len(lines) |-> NormalizedLine(lines[k])]
    IN  Join(FilterNonEmpty(normalizedLines, 1), "\n")

normalizeExtractedText(str) ==
    normalizeWhitespace(removeControlCharacters(normalizeLineBreaks(str)))

cleanPageText(pageText) == normalizeExtractedText(pageText)

\* an Error of the given name, and a thrown value that is no Error
ErrorNamed(name, message) == [isError |-> TRUE, name |-> name, message |-> message]
NonError == [isError |-> FALSE]

createError(code, message, details) ==
    [isError |-> TRUE, name |-> "PDFExtractionError", message |-> message, code |-> code,
     details |-> details]

IsPDFExtractionError(error) == error.isError /\ error.name = "PDFExtractionError"

\* error instanceof Error ? error.message : fallback
MessageOr(error, fallback) == IF error.isError THEN error.message ELSE fallback

\* the catch of the outer try, with every error wrapped
WrapEveryError(error) ==
    createError("EXTRACTION_FAILED", "Failed to extract text from PDF",
                MessageOr(error, "An unknown error occurred"))

\* the catch of the outer try: the error the call rejects with
OuterCatch(error) ==
    IF IsPDFExtractionError(error) THEN error
    ELSE createError("EXTRACTION_FAILED", "Failed to extract text from PDF",
                     MessageOr(error, "An unknown error occurred"))

\* the catch around getDocument
LoadCatch(error) ==
    IF error.isError /\ error.name = "PasswordException"
    THEN createError("PASSWORD_PROTECTED", "PDF is password protected",
                     "This tool does not support encrypted or password-protected PDFs. Please remove the password and try again.")
    ELSE IF error.isError /\ error.name = "InvalidPDFException"
    THEN createError("INVALID_PDF", "Invalid PDF file",
                     "The file does not appear to be a valid PDF document. Please check the file and try again.")
    ELSE createError("LOAD_FAILED", "Failed to load PDF",
                     MessageOr(error, "An unknown error occurred while loading the PDF"))

Cancelled(details) == createError("CANCELLED", "Extraction cancelled", details)

\* the file handed over, and what the collaborators can answer
File == [name |-> "statement.pdf", size |-> 2048]
MaxPages == 2
ReadErrors == { ErrorNamed("NotReadableError", "The file could not be read") }
LoadErrors ==
    { ErrorNamed("PasswordException", "No password given"),
      ErrorNamed("InvalidPDFException", "Invalid PDF structure."),
      ErrorNamed("UnknownErrorException", "Worker was destroyed"),
      NonError }
PageErrors == { ErrorNamed("Error", "Invalid page request.") }
\* the str of the items of a page's text content
PageItems ==
    { << >>, << " ", "\t" >>, << "\f", "" >>, << "Fee 112.50" >>,
      << "Date ", "  Amount\r\n", "05/11/25\t9.00\r" >> }

\* extractPageText: the items joined and cleaned, '' when getTextContent fails
extractPageText(items) == cleanPageText(Join(items, " "))

PluralPages(totalPages) == IF totalPages # 1 THEN "s" ELSE ""

InitialProgress(totalPages) ==
    [currentPage |-> 0, totalPages |-> totalPages, percentage |-> 0,
     message |-> "Loaded PDF with " \o ToString(totalPages) \o " page" \o PluralPages(totalPages)]

PageProgress(pageNum, totalPages) ==
    [currentPage |-> pageNum, totalPages |-> totalPages,
     percentage |-> RoundDiv(pageNum * 100, totalPages),
     message |-> "Extracting page " \o ToString(pageNum) \o " of " \o ToString(totalPages) \o "..."]

\* onProgress?.(report)
Reported(call, report) == IF call.onProgress THEN Append(call.progress, report) ELSE call.progress

\* a call that has not started: whether onProgress and signal are given
NewCall(onProgress, signal) ==
    [onProgress |-> onProgress, signal |-> signal, aborted |-> FALSE, at |-> "start",
     totalPages |-> 0, pageNum |-> 0, pageTexts |-> << >>, progress |-> << >>,
     loadError |-> None, thrown |-> None, settled |-> None,
     abortedAt |-> "", progressAtAbort |-> 0]

\* an error thrown inside the outer try: the call rejects
Throw(call, error) ==
    [call EXCEPT !.at = "settled", !.thrown = Some(error),
                 !.settled = [rejected |-> TRUE, error |-> OuterCatch(error)]]

\* after the loop: the texts joined and normalized, NO_TEXT or the result
Complete(call, normalizedText) ==
    IF Len(Trim(normalizedText)) = 0
    THEN Throw(call, createError("NO_TEXT", "No text found in PDF",
                                 "This PDF appears to contain only images or scanned content. This tool requires digital PDFs with selectable text."))
    ELSE [call EXCEPT !.at = "settled",
                      !.settled = [rejected |-> FALSE, text |-> normalizedText,
                                   pageCount |-> call.totalPages,
                                   metadata |-> [fileName |-> File.name, fileSize |-> File.size,
                                                 pageCount |-> call.totalPages]]]

\* the head of the loop over the pages, with pageNum already set
LoopHead(call) ==
    IF call.pageNum <= call.totalPages
    THEN IF call.signal /\ call.aborted
         THEN Throw(call, Cancelled("The extraction was cancelled by the user"))
         ELSE [call EXCEPT !.at = "getPage"]
    ELSE Complete(call, normalizeExtractedText(Join(call.pageTexts, "\n\n")))

PdfInit ==
    /\ extraction \in { NewCall(onProgress, signal) : onProgress \in BOOLEAN, signal \in BOOLEAN }
    /\ text = ""
    /\ options = DefaultOptions
    /\ today \in Todays
    /\ pc = "extract"
    /\ opts = None
    /\ normalized = << >>
    /\ likelyCandidates = << >>
    /\ idx = 1
    /\ transaction = None
    /\ parsed = << >>
    /\ skipped = << >>
    /\ result = None
    /\ previous = None

ParserIdle ==
    UNCHANGED << text, options, today, pc, opts, normalized, likelyCandidates, idx, transaction,
                 parsed, skipped, result, previous >>

\* the controller aborts while the call is not settled; abortedAt and
\* progressAtAbort keep where the call stood and what it had reported
Abort ==
    /\ extraction.signal /\ ~extraction.aborted
    /\ extraction.at # "settled"
    /\ extraction' = [extraction EXCEPT !.aborted = TRUE, !.abortedAt = extraction.at,
                                        !.progressAtAbort = Len(extraction.progress)]
    /\ ParserIdle

\* the call starts: the first check of the signal, then file.arrayBuffer()
Begin ==
    /\ extraction.at = "start"
    /\ extraction' = IF extraction.signal /\ extraction.aborted
                     THEN Throw(extraction, Cancelled("The extraction was cancelled before it started"))
                     ELSE [extraction EXCEPT !.at = "arrayBuffer"]
    /\ ParserIdle

\* file.arrayBuffer() settles: the second check of the signal, then getDocument
FileRead ==
    /\ extraction.at = "arrayBuffer"
    /\ \/ extraction' = IF extraction.signal /\ extraction.aborted
                        THEN Throw(extraction, Cancelled("The extraction was cancelled"))
                        ELSE [extraction EXCEPT !.at = "getDocument"]
       \/ \E error \in ReadErrors : extraction' = Throw(extraction, error)
    /\ ParserIdle

\* loadingTask.promise settles: the document, or the catch around it
Load ==
    /\ extraction.at = "getDocument"
    /\ \/ \E numPages \in 1..MaxPages :
             extraction' = [extraction EXCEPT !.at = "getMetadata", !.totalPages = numPages]
       \/ \E error \in LoadErrors :
             extraction' = Throw([extraction EXCEPT !.loadError = Some(error)], LoadCatch(error))
    /\ ParserIdle

\* extractMetadata returns (it catches what getMetadata throws): the initial
\* progress report, then the head of the loop for page 1
Metadata ==
    /\ extraction.at = "getMetadata"
    /\ extraction' =
          LoopHead([extraction EXCEPT !.pageNum = 1,
                                      !.progress = Reported(extraction,
                                                            InitialProgress(extraction.totalPages))])
    /\ ParserIdle

\* pdf.getPage(pageNum) settles
GetPage ==
    /\ extraction.at = "getPage"
    /\ \/ extraction' = [extraction EXCEPT !.at = "getTextContent"]
       \/ \E error \in PageErrors : extraction' = Throw(extraction, error)
    /\ ParserIdle

\* the rest of an iteration once extractPageText has returned pageText: the
\* push, the progress report, pageNum++ and the head of the loop
PageDone(pageText) ==
    extraction' =
       LoopHead([extraction EXCEPT !.pageTexts = Append(extraction.pageTexts, pageText),
                                   !.progress = Reported(extraction,
                                                         PageProgress(extraction.pageNum,
                                                                      extraction.totalPages)),
                                   !.pageNum = extraction.pageNum + 1])

\* page.getTextContent() settles inside extractPageText, which returns ''
\* when it fails
PageText ==
    /\ extraction.at = "getTextContent"
    /\ \/ \E items \in PageItems : PageDone(extractPageText(items))
       \/ PageDone("")
    /\ ParserIdle

PdfNext == Abort \/ Begin \/ FileRead \/ Load \/ Metadata \/ GetPage \/ PageText

PdfSpec == PdfInit /\ [][PdfNext]_vars

(***************************************************************************)
(* The failures of extractPdfText                                          *)
(***************************************************************************)
FailureCodes ==
    { "PASSWORD_PROTECTED", "INVALID_PDF", "LOAD_FAILED", "NO_TEXT", "CANCELLED",
      "EXTRACTION_FAILED" }

CallRejected == extraction.at = "settled" /\ extraction.settled.rejected
CallResolved == extraction.at = "settled" /\ ~extraction.settled.rejected

\* every page has been read and none has yielded text
NoPageHasText ==
    /\ Len(extraction.pageTexts) = extraction.totalPages
    /\ extraction.totalPages >= 1
    /\ \A k \in 1..Len(extraction.pageTexts) : extraction.pageTexts[k] = ""

\* the code that names the failure of getDocument
LoadCodeOf(error) ==
    IF error.isError /\ error.name = "PasswordException" THEN "PASSWORD_PROTECTED"
    ELSE IF error.isError /\ error.name = "InvalidPDFException" THEN "INVALID_PDF"
    ELSE "LOAD_FAILED"

\* C24: every failure of extractPdfText rejects with a PDFExtractionError
\* whose code names the kind: PASSWORD_PROTECTED, INVALID_PDF or LOAD_FAILED
\* by the error of getDocument, NO_TEXT when no page yields text, CANCELLED
\* when a check sees the signal aborted; the outer handler passes on a
\* PDFExtractionError with the code it was created with, and wraps as
\* EXTRACTION_FAILED exactly the errors that are no PDFExtractionError.
FailureKinds ==
    /\ CallRejected =>
          /\ IsPDFExtractionError(extraction.settled.error)
          /\ extraction.settled.error.code \in FailureCodes
          /\ extraction.thrown # None
          /\ IsPDFExtractionError(extraction.thrown.v)
                => extraction.settled.error = extraction.thrown.v
          /\ extraction.settled.error.code = "EXTRACTION_FAILED"
                <=> ~IsPDFExtractionError(extraction.thrown.v)
          /\ extraction.loadError # None
                => extraction.settled.error.code = LoadCodeOf(extraction.loadError.v)
          /\ extraction.settled.error.code \in {"PASSWORD_PROTECTED", "INVALID_PDF", "LOAD_FAILED"}
                => extraction.loadError # None
          /\ extraction.settled.error.code = "NO_TEXT" <=> NoPageHasText
          /\ extraction.settled.error.code = "CANCELLED"
                => extraction.signal /\ extraction.aborted
    /\ CallResolved =>
          /\ Len(extraction.pageTexts) = extraction.totalPages
          /\ \E k \in 1..Len(extraction.pageTexts) : extraction.pageTexts[k] # ""

\* the code given where getDocument failed reaches the caller
PasswordCodeKept ==
    /\ CallRejected
    /\ extraction.loadError = Some(ErrorNamed("PasswordException", "No password given"))
    /\ extraction.settled.error.code = "PASSWORD_PROTECTED"
    /\ extraction.settled.error.name = "PDFExtractionError"

(***************************************************************************)
(* Cancellation of extractPdfText                                          *)
(***************************************************************************)
\* before the start, during the file read, during a page
AbortMoments == { "start", "arrayBuffer", "getPage", "getTextContent" }

\* an error that is no PDFExtractionError was thrown: a collaborator failed
CollaboratorFailed == extraction.thrown # None /\ ~IsPDFExtractionError(extraction.thrown.v)

\* C30: if the signal is aborted before the call settles (before the start,
\* during the file read, or during any page, the last included) the call
\* rejects with code CANCELLED, never resolves with a result, and no
\* progress is reported after the abort.
AbortAlwaysCancels ==
    (extraction.at = "settled" /\ extraction.aborted /\ extraction.abortedAt \in AbortMoments
       /\ ~CollaboratorFailed)
    => /\ CallRejected
       /\ extraction.settled.error.code = "CANCELLED"
       /\ Len(extraction.progress) = extraction.progressAtAbort

(***************************************************************************)
(* The two amount sides of a transaction                                   *)
(***************************************************************************)
BothSides(t) == t.payment # None /\ t.receipt # None
NoSide(t) == t.payment = None /\ t.receipt = None
OneSide(t) == ~BothSides(t) /\ ~NoSide(t)

\* C25: every transaction in parseTransactions(...).transactions has exactly
\* one of its two amount sides set: payment and receipt are never both
\* present and never both absent.
ExactlyOneSide ==
    /\ transaction # None => ~BothSides(transaction)
    /\ \A k \in 1..Len(parsed) : OneSide(parsed[k].tx)
    /\ pc = "done" => \A k \in 1..Len(result.transactions) : OneSide(result.transactions[k])

\* a transfer from savings is returned as a receipt without a payment
ReceiptWithoutPayment ==
    /\ pc = "done"
    /\ text = "12/03/25 KAS-IB-TRF FROM savings 400.00"
    /\ Len(result.transactions) = 1
    /\ result.transactions[1].receipt = Some(40000)
    /\ result.transactions[1].payment = None

(***************************************************************************)
(* Lines whose amount has no side                                          *)
(***************************************************************************)
\* candidate k has a date and a chosen amount whose isDebit and isCredit are
\* both false, and its line holds no debit and no credit keyword
SignUnresolved(k) ==
    /\ ~NoDate(KeyOf(k))
    /\ ~NoAmount(likelyCandidates[k].line)
    /\ Unresolved(ChosenOf(likelyCandidates[k].line))
    /\ ~HasKeyword(DEBIT_KEYWORDS, likelyCandidates[k].line)
    /\ ~HasKeyword(CREDIT_KEYWORDS, likelyCandidates[k].line)

NoAmountIssue == "No transaction amount found"

\* C26: a candidate line whose chosen transaction amount is sign-unresolved
\* and which contains no debit or credit keyword is never accepted, whatever
\* minConfidence is: payment and receipt stay undefined, hasAmount is false,
\* and the line is skipped with the issue 'No transaction amount found'.
UnresolvedNeverAccepted ==
    \A k \in 1..Len(likelyCandidates) :
        (k < idx /\ SignUnresolved(k)) =>
            /\ NoSide(ParsedOf(k))
            /\ ~ParsedOf(k).factors.hasAmount
            /\ NoAmountIssue \in { ParsedOf(k).issues[j] : j \in 1..Len(ParsedOf(k).issues) }
            /\ AcceptsOf(k) = {}
            /\ Cardinality(SkipsOf(k)) = 1
            /\ \A j \in SkipsOf(k) : Includes(skipped[j].reason, NoAmountIssue)
            /\ pc = "done" =>
                  \A j \in 1..Len(result.transactions) :
                      result.transactions[j].rawLine # likelyCandidates[k].line

\* with a negative minConfidence the bookshop line is still skipped
UnsignedAmountSkipped ==
    /\ pc = "done"
    /\ text = "12/03/25 Bookshop 130.00"
    /\ options.minConfidence = Some(-10)
    /\ result.transactions = << >>
    /\ Len(result.skipped) = 1
    /\ Includes(result.skipped[1].reason, NoAmountIssue)

(***************************************************************************)
(* The confidence of accepted transactions                                 *)
(***************************************************************************)
\* valid date 30 + amount 25 + amount format valid 10
AcceptedFloor == WeightValidDate + WeightAmount + WeightAmountFormat

\* thresholds up to the floor, the default among them
LowThresholds == { -10, 0, 1, DefaultMinConfidence, AcceptedFloor - 1, AcceptedFloor }

\* C27: every transaction parseTransactions accepts has confidence >= 65
\* (valid date 30 + amount 25 + amount format valid 10); hence for every
\* minConfidence <= 65, the default 50 included, a scored line is accepted
\* or skipped exactly as it is for minConfidence 0.
AcceptedAtLeastFloor ==
    /\ AcceptedFloor = 65
    /\ \A k \in 1..Len(parsed) :
          /\ parsed[k].tx.confidence >= AcceptedFloor
          /\ parsed[k].tx.factors.amountFormatValid
    /\ transaction # None =>
          \A minConfidence \in LowThresholds :
              isValidTransaction(transaction, minConfidence) <=> isValidTransaction(transaction, 0)

\* a payment of 2020 without description or balance is accepted with 65
AcceptedAtFloor ==
    /\ pc = "done"
    /\ text = "01/02/20 (300.00)"
    /\ options.minConfidence = None
    /\ Len(parsed) = 1
    /\ parsed[1].tx.confidence = AcceptedFloor
    /\ Len(result.transactions) = 1

(***************************************************************************)
(* Amounts on lines that end with Cr or Dr                                 *)
(***************************************************************************)
\* the line ends, spaces aside, with the word CR or DR in either case
EndsWithToken(line, token) ==
    /\ Len(TrimEnd(line)) >= 2
    /\ toUpperCase(SubSeq(TrimEnd(line), Len(TrimEnd(line)) - 1, Len(TrimEnd(line)))) = token
    /\ Ch(TrimEnd(line), Len(TrimEnd(line)) - 2) \notin WordSet

\* the text of the amount carries no sign and no marker of its own
Unmarked(original) == ~DebitMarked(original) /\ ~CreditMarked(original)

\* the amount has one side, and the side of the line when it has no mark
TakesSideOf(amount, line) ==
    /\ amount.isDebit # amount.isCredit
    /\ Unmarked(amount.original) =>
          /\ amount.isCredit = EndsWithToken(line, "CR")
          /\ amount.isDebit = EndsWithToken(line, "DR")

\* the sides parseLine gives the amount are its own, whatever keywords the
\* line holds
KeywordsWithoutEffect(amount) ==
    \A hasDebitKeyword \in BOOLEAN, hasCreditKeyword \in BOOLEAN :
        /\ FinalIsDebit(amount, hasDebitKeyword, hasCreditKeyword) = amount.isDebit
        /\ FinalIsCredit(amount, hasDebitKeyword, hasCreditKeyword) = amount.isCredit

\* C28: on a line that ends with a Cr or Dr token every amount extractAmounts
\* returns has its side resolved: the amounts matched by patterns without a
\* sign all take the direction of the trailing marker, so that on such lines
\* the keyword fallback of parseLine never takes effect.
MarkerResolvesAll ==
    (pc = "extracted" /\ (EndsWithToken(text, "CR") \/ EndsWithToken(text, "DR"))) =>
        \A k \in 1..Len(result) :
            /\ TakesSideOf(result[k], text)
            /\ KeywordsWithoutEffect(result[k])

\* the amount after a currency sign is a credit on a line that ends with Cr
CurrencyAmountCredited ==
    /\ pc = "extracted"
    /\ text = "Fee $250.00 Cr"
    /\ \E k \in 1..Len(result) :
          /\ result[k].original = "$250.00"
          /\ result[k].isCredit /\ ~result[k].isDebit

(***************************************************************************)
(* Two calls of parseTransactions on the same text, the same day, with the *)
(* same minConfidence and dateFormat, the second with strict the other way *)
(***************************************************************************)
\* the caller keeps the result and calls again with strict negated
CallWithStrictNegated ==
    /\ pc = "done"
    /\ previous = None
    /\ previous' = result
    /\ options' = [options EXCEPT !.strict = Some(~WithDefaults(options).strict)]
    /\ pc' = "start"
    /\ opts' = None
    /\ normalized' = << >>
    /\ likelyCandidates' = << >>
    /\ idx' = 1
    /\ transaction' = None
    /\ parsed' = << >>
    /\ skipped' = << >>
    /\ result' = None
    /\ UNCHANGED << extraction, text, today >>

StrictNext ==
    Normalize \/ Detect \/ SkipUnparsed \/ Accept \/ Reject \/ Finish \/ CallWithStrictNegated

StrictSpec == SignInit /\ [][StrictNext]_vars

=============================================================================
